---------------------------- MODULE Spec2Model ----------------------------
(***************************************************************************)
(* A model of the Servoo catalog pipeline:                                 *)
(*   - DATA_ENGINEERING/Code/Merging_code.py: the extractors               *)
(*     (extract_weight_quantity, extract_units_per_carton) and the ETL     *)
(*     loop that consolidates the supplier files;                          *)
(*   - DATA_SCRAPING/CODE/2COSINE/Cosine_Similarity_Code.py: the TF-IDF    *)
(*     cosine score and the match resolver of main().                      *)
(* Text is a sequence of one-character strings. Regular expressions are    *)
(* data, matched by a backtracking matcher with the priorities of          *)
(* Python's re module, so each pattern of the source appears here as the   *)
(* same pattern.                                                           *)
(***************************************************************************)
EXTENDS Integers, Sequences, FiniteSets, TLC

(***************************************************************************)
(* Characters                                                              *)
(***************************************************************************)
\* The multiplication sign U+00D7 of the patterns, as one character.
TIMES == "TIMES"

Digits == {"0", "1", "2", "3", "4", "5", "6", "7", "8", "9"}

UpperSeq == <<"A", "B", "C", "D", "E", "F", "G", "H", "I", "J", "K", "L", "M",
              "N", "O", "P", "Q", "R", "S", "T", "U", "V", "W", "X", "Y", "Z">>

LowerSeq == <<"a", "b", "c", "d", "e", "f", "g", "h", "i", "j", "k", "l", "m",
              "n", "o", "p", "q", "r", "s", "t", "u", "v", "w", "x", "y", "z">>

UpperLetters == {UpperSeq[i] : i \in 1..26}

LowerLetters == {LowerSeq[i] : i \in 1..26}

\* \w of the patterns: letters, digits and the underscore.
WordChars == UpperLetters \cup LowerLetters \cup Digits \cup {"_"}

\* \s of the patterns (the only white space of the model's alphabet).
SpaceChars == {" "}

\* The punctuation of the model's alphabet.
PunctChars == {"*", TIMES, "(", ")", "+", ".", "-", "/"}

Chars == WordChars \cup SpaceChars \cup PunctChars

\* \W of the patterns.
NonWordChars == Chars \ WordChars

\* str.upper() on one character.
UpperChar(c) ==
    IF c \in LowerLetters
    THEN UpperSeq[CHOOSE i \in 1..26 : LowerSeq[i] = c]
    ELSE c

\* str.upper()
Upper(s) == [i \in 1..Len(s) |-> UpperChar(s[i])]

RECURSIVE LStrip(_)
LStrip(s) == IF s # <<>> /\ Head(s) \in SpaceChars THEN LStrip(Tail(s)) ELSE s

RECURSIVE RStrip(_)
RStrip(s) ==
    IF s # <<>> /\ s[Len(s)] \in SpaceChars
    THEN RStrip(SubSeq(s, 1, Len(s) - 1))
    ELSE s

\* str.strip()
Strip(s) == RStrip(LStrip(s))

\* A missing value (None / NaN), which the extractors test with pd.isna.
NaN == <<"<NaN>">>

IsNa(name) == name = NaN

\* Python's None where a string is expected.
None == <<"<None>">>

\* Python's None and an int, where an optional int is expected.
PyNone == [none |-> TRUE]

PyInt(n) == [none |-> FALSE, int |-> n]

RECURSIVE DigitsToInt(_)
\* int() of a string of decimal digits.
DigitsToInt(ds) ==
    IF ds = <<>>
    THEN 0
    ELSE 10 * DigitsToInt(SubSeq(ds, 1, Len(ds) - 1))
         + (CHOOSE d \in 0..9 : ToString(d) = ds[Len(ds)])

(***************************************************************************)
(* Regular expressions: re.search and re.findall                           *)
(***************************************************************************)
RChr(S) == [t |-> "chr", s |-> S]

RCat(rs) == [t |-> "cat", rs |-> rs]

RAlt(rs) == [t |-> "alt", rs |-> rs]

RStar(r) == [t |-> "star", r |-> r]

RPlus(r) == RCat(<<r, RStar(r)>>)

ROpt(r) == RAlt(<<r, RCat(<<>>)>>)

RGrp(k, r) == [t |-> "grp", k |-> k, r |-> r]

RLook(r) == [t |-> "look", r |-> r]

RWordB == [t |-> "wordb"]

REnd == [t |-> "end"]

RLit(str) == RCat([i \in 1..Len(str) |-> RChr({str[i]})])

\* A group that did not take part in the match.
NoCap == <<"<unset>">>

NoCaps == <<NoCap, NoCap>>

\* Whether the character after offset i - 1 (the i-th) is a word character.
IsWordAt(s, i) == i >= 1 /\ i <= Len(s) /\ s[i] \in WordChars

RECURSIVE ReMatch(_, _, _, _), ReCat(_, _, _, _, _), ReCatAll(_, _, _, _, _),
          ReAlt(_, _, _, _, _), ReStar(_, _, _, _), ReStarAll(_, _, _, _, _)
\* The matches of r in s from offset i, as <<end offset, groups>>, in the
\* order a backtracking matcher tries them (greedy first, alternatives left
\* to right).
ReMatch(r, s, i, caps) ==
    CASE r.t = "chr" ->
           IF i < Len(s) /\ s[i + 1] \in r.s THEN << <<i + 1, caps>> >> ELSE <<>>
      [] r.t = "cat" -> ReCat(r.rs, 1, s, i, caps)
      [] r.t = "alt" -> ReAlt(r.rs, 1, s, i, caps)
      [] r.t = "star" -> ReStar(r.r, s, i, caps)
      [] r.t = "grp" ->
           LET inner == ReMatch(r.r, s, i, caps)
           IN  [n \in 1..Len(inner) |->
                  <<inner[n][1],
                    [inner[n][2] EXCEPT ![r.k] = SubSeq(s, i + 1, inner[n][1])]>>]
      [] r.t = "look" ->
           IF ReMatch(r.r, s, i, caps) # <<>> THEN << <<i, caps>> >> ELSE <<>>
      [] r.t = "wordb" ->
           IF IsWordAt(s, i) # IsWordAt(s, i + 1) THEN << <<i, caps>> >> ELSE <<>>
      [] r.t = "end" -> IF i = Len(s) THEN << <<i, caps>> >> ELSE <<>>

ReCat(rs, k, s, i, caps) ==
    IF k > Len(rs)
    THEN << <<i, caps>> >>
    ELSE ReCatAll(rs, k, s, ReMatch(rs[k], s, i, caps), 1)

ReCatAll(rs, k, s, first, n) ==
    IF n > Len(first)
    THEN <<>>
    ELSE ReCat(rs, k + 1, s, first[n][1], first[n][2])
         \o ReCatAll(rs, k, s, first, n + 1)

ReAlt(rs, k, s, i, caps) ==
    IF k > Len(rs)
    THEN <<>>
    ELSE ReMatch(rs[k], s, i, caps) \o ReAlt(rs, k + 1, s, i, caps)

ReStar(r, s, i, caps) ==
    ReStarAll(r, s, ReMatch(r, s, i, caps), 1, i) \o << <<i, caps>> >>

ReStarAll(r, s, once, n, i) ==
    IF n > Len(once)
    THEN <<>>
    ELSE (IF once[n][1] > i THEN ReStar(r, s, once[n][1], once[n][2]) ELSE <<>>)
         \o ReStarAll(r, s, once, n + 1, i)

RECURSIVE ReSearchFrom(_, _, _)
\* pattern.search(s, pos): the leftmost match at or after offset st.
ReSearchFrom(r, s, st) ==
    IF st > Len(s)
    THEN [found |-> FALSE]
    ELSE LET ms == ReMatch(r, s, st, NoCaps)
         IN  IF ms # <<>>
             THEN [found |-> TRUE, start |-> st, end |-> ms[1][1], groups |-> ms[1][2]]
             ELSE ReSearchFrom(r, s, st + 1)

\* re.search(r, s)
ReSearch(r, s) == ReSearchFrom(r, s, 0)

RECURSIVE ReFindAllFrom(_, _, _)
\* re.findall(r, s) of a pattern with one group: group 1 of each of the
\* non-overlapping matches, left to right.
ReFindAllFrom(r, s, st) ==
    LET m == ReSearchFrom(r, s, st)
    IN  IF ~m.found
        THEN <<>>
        ELSE <<m.groups[1]>>
             \o ReFindAllFrom(r, s, IF m.end > m.start THEN m.end ELSE m.end + 1)

ReFindAll(r, s) == ReFindAllFrom(r, s, 0)

RDigit == RChr(Digits)

RSpace == RChr(SpaceChars)

(***************************************************************************)
(* Merging_code.py: extract_units_per_carton                               *)
(***************************************************************************)
\* [*xX] with the multiplication sign: the class [*×X]
MulStarClass == RChr({"*", TIMES, "X"})

\* [X×]
MulClass == RChr({"X", TIMES})

\* [\d\.]
NumClass == RChr(Digits \cup {"."})

\* (\d+)\s*(PCS|PC|PS)\b
PcsRe ==
    RCat(<<RGrp(1, RPlus(RDigit)), RStar(RSpace),
           RGrp(2, RAlt(<<RLit(<<"P", "C", "S">>), RLit(<<"P", "C">>),
                          RLit(<<"P", "S">>)>>)),
           RWordB>>)

\* \(\s*[\d\.]+\s*(?:ML|L|G|KG)?\s*[*×X]\s*(\d+)\s*\)
BracketRe ==
    RCat(<<RChr({"("}), RStar(RSpace), RPlus(NumClass), RStar(RSpace),
           ROpt(RAlt(<<RLit(<<"M", "L">>), RLit(<<"L">>), RLit(<<"G">>),
                       RLit(<<"K", "G">>)>>)),
           RStar(RSpace), MulStarClass, RStar(RSpace), RGrp(1, RPlus(RDigit)),
           RStar(RSpace), RChr({")"})>>)

\* (\d+)\s*[*×X]\s*[\d\.]+\s*(?:ML|L|LTR|G|KG|MIL|OZ)
BeforeUnitRe ==
    RCat(<<RGrp(1, RPlus(RDigit)), RStar(RSpace), MulStarClass, RStar(RSpace),
           RPlus(NumClass), RStar(RSpace),
           RAlt(<<RLit(<<"M", "L">>), RLit(<<"L">>), RLit(<<"L", "T", "R">>),
                  RLit(<<"G">>), RLit(<<"K", "G">>), RLit(<<"M", "I", "L">>),
                  RLit(<<"O", "Z">>)>>)>>)

\* (\d+)\s*[X×]\s*(?=\d+)
XNumbersRe ==
    RCat(<<RGrp(1, RPlus(RDigit)), RStar(RSpace), MulClass, RStar(RSpace),
           RLook(RPlus(RDigit))>>)

\* \b(\d+)\s*[X×]\s*\d*\s*(?:KG|G|GM|L|ML)\b
SingleXRe ==
    RCat(<<RWordB, RGrp(1, RPlus(RDigit)), RStar(RSpace), MulClass,
           RStar(RSpace), RStar(RDigit), RStar(RSpace),
           RAlt(<<RLit(<<"K", "G">>), RLit(<<"G">>), RLit(<<"G", "M">>),
                  RLit(<<"L">>), RLit(<<"M", "L">>)>>),
           RWordB>>)

\* \b(\d+)\s*(BAG|BAGS|TEABAG|TEABAGS|TEA BAGS|STICKS)\b
BagRe ==
    RCat(<<RWordB, RGrp(1, RPlus(RDigit)), RStar(RSpace),
           RGrp(2, RAlt(<<RLit(<<"B", "A", "G">>), RLit(<<"B", "A", "G", "S">>),
                          RLit(<<"T", "E", "A", "B", "A", "G">>),
                          RLit(<<"T", "E", "A", "B", "A", "G", "S">>),
                          RLit(<<"T", "E", "A", " ", "B", "A", "G", "S">>),
                          RLit(<<"S", "T", "I", "C", "K", "S">>)>>)),
           RWordB>>)

\* (\d+)\s*\+\s*(\d+)
PlusRe ==
    RCat(<<RGrp(1, RPlus(RDigit)), RStar(RSpace), RChr({"+"}), RStar(RSpace),
           RGrp(2, RPlus(RDigit))>>)

\* [*×X]\s*(\d+)
StarAfterRe == RCat(<<MulStarClass, RStar(RSpace), RGrp(1, RPlus(RDigit))>>)

RECURSIVE NpProd(_)
\* int(np.prod(nums)). numpy multiplies in int64 and wraps; the names of the
\* model keep every product far below 2^31, where no wrap happens.
NpProd(nums) == IF nums = <<>> THEN 1 ELSE Head(nums) * NpProd(Tail(nums))

\* The text the recognizers search: name.upper().strip()
UnitsText(name) == Strip(Upper(name))

\* A variant of extract_units_per_carton whose plus pattern returns the first
\* number alone, not the sum.
extract_units_first_addend(name) ==
    IF IsNa(name)
    THEN [by |-> 0, value |-> PyNone]
    ELSE
    LET text == UnitsText(name)
        pcs_match == ReSearch(PcsRe, text)
        bracket_match == ReSearch(BracketRe, text)
        before_unit_match == ReSearch(BeforeUnitRe, text)
        x_numbers == ReFindAll(XNumbersRe, text)
        single_x_match == ReSearch(SingleXRe, text)
        bag_match == ReSearch(BagRe, text)
        plus_match == ReSearch(PlusRe, text)
        star_after_match == ReSearch(StarAfterRe, text)
    IN  IF pcs_match.found
        THEN [by |-> 1, value |-> PyInt(DigitsToInt(pcs_match.groups[1]))]
        ELSE IF bracket_match.found
        THEN [by |-> 2, value |-> PyInt(DigitsToInt(bracket_match.groups[1]))]
        ELSE IF before_unit_match.found
        THEN [by |-> 3, value |-> PyInt(DigitsToInt(before_unit_match.groups[1]))]
        ELSE IF Len(x_numbers) >= 2
        THEN [by |-> 4,
              value |-> PyInt(NpProd([i \in 1..Len(x_numbers) |->
                                        DigitsToInt(x_numbers[i])]))]
        ELSE IF Len(x_numbers) = 1
        THEN [by |-> 5, value |-> PyInt(DigitsToInt(x_numbers[1]))]
        ELSE IF single_x_match.found
        THEN [by |-> 6, value |-> PyInt(DigitsToInt(single_x_match.groups[1]))]
        ELSE IF bag_match.found
        THEN [by |-> 7, value |-> PyInt(DigitsToInt(bag_match.groups[1]))]
        ELSE IF plus_match.found
        THEN [by |-> 8,
              value |-> PyInt(DigitsToInt(plus_match.groups[1]))]
        ELSE IF star_after_match.found
        THEN [by |-> 9, value |-> PyInt(DigitsToInt(star_after_match.groups[1]))]
        ELSE [by |-> 0, value |-> PyNone]

\* A variant of extract_units_per_carton that tries the fallback pattern
\* first, not last.
extract_units_fallback_first(name) ==
    IF IsNa(name)
    THEN [by |-> 0, value |-> PyNone]
    ELSE
    LET text == UnitsText(name)
        pcs_match == ReSearch(PcsRe, text)
        bracket_match == ReSearch(BracketRe, text)
        before_unit_match == ReSearch(BeforeUnitRe, text)
        x_numbers == ReFindAll(XNumbersRe, text)
        single_x_match == ReSearch(SingleXRe, text)
        bag_match == ReSearch(BagRe, text)
        plus_match == ReSearch(PlusRe, text)
        star_after_match == ReSearch(StarAfterRe, text)
    IN  IF star_after_match.found
        THEN [by |-> 9, value |-> PyInt(DigitsToInt(star_after_match.groups[1]))]
        ELSE IF pcs_match.found
        THEN [by |-> 1, value |-> PyInt(DigitsToInt(pcs_match.groups[1]))]
        ELSE IF bracket_match.found
        THEN [by |-> 2, value |-> PyInt(DigitsToInt(bracket_match.groups[1]))]
        ELSE IF before_unit_match.found
        THEN [by |-> 3, value |-> PyInt(DigitsToInt(before_unit_match.groups[1]))]
        ELSE IF Len(x_numbers) >= 2
        THEN [by |-> 4,
              value |-> PyInt(NpProd([i \in 1..Len(x_numbers) |->
                                        DigitsToInt(x_numbers[i])]))]
        ELSE IF Len(x_numbers) = 1
        THEN [by |-> 5, value |-> PyInt(DigitsToInt(x_numbers[1]))]
        ELSE IF single_x_match.found
        THEN [by |-> 6, value |-> PyInt(DigitsToInt(single_x_match.groups[1]))]
        ELSE IF bag_match.found
        THEN [by |-> 7, value |-> PyInt(DigitsToInt(bag_match.groups[1]))]
        ELSE IF plus_match.found
        THEN [by |-> 8,
              value |-> PyInt(DigitsToInt(plus_match.groups[1])
                              + DigitsToInt(plus_match.groups[2]))]
        ELSE [by |-> 0, value |-> PyNone]

\* extract_units_per_carton(name). "value" is what the function returns;
\* "by" names the return statement that produced it: 1 PCS/PC/PS, 2 the
\* bracket pattern, 3 count before quantity and unit, 4 the product of the
\* chained X numbers, 5 the single X number, 6 count-X-unit, 7 bags, 8 plus,
\* 9 the fallback, 0 one of the two "return None".
extract_units_per_carton(name) ==
    IF IsNa(name)
    THEN [by |-> 0, value |-> PyNone]
    ELSE
    LET text == UnitsText(name)
        pcs_match == ReSearch(PcsRe, text)
        bracket_match == ReSearch(BracketRe, text)
        before_unit_match == ReSearch(BeforeUnitRe, text)
        x_numbers == ReFindAll(XNumbersRe, text)
        single_x_match == ReSearch(SingleXRe, text)
        bag_match == ReSearch(BagRe, text)
        plus_match == ReSearch(PlusRe, text)
        star_after_match == ReSearch(StarAfterRe, text)
    IN  IF pcs_match.found
        THEN [by |-> 1, value |-> PyInt(DigitsToInt(pcs_match.groups[1]))]
        ELSE IF bracket_match.found
        THEN [by |-> 2, value |-> PyInt(DigitsToInt(bracket_match.groups[1]))]
        ELSE IF before_unit_match.found
        THEN [by |-> 3, value |-> PyInt(DigitsToInt(before_unit_match.groups[1]))]
        ELSE IF Len(x_numbers) >= 2
        THEN [by |-> 4,
              value |-> PyInt(NpProd([i \in 1..Len(x_numbers) |->
                                        DigitsToInt(x_numbers[i])]))]
        ELSE IF Len(x_numbers) = 1
        THEN [by |-> 5, value |-> PyInt(DigitsToInt(x_numbers[1]))]
        ELSE IF single_x_match.found
        THEN [by |-> 6, value |-> PyInt(DigitsToInt(single_x_match.groups[1]))]
        ELSE IF bag_match.found
        THEN [by |-> 7, value |-> PyInt(DigitsToInt(bag_match.groups[1]))]
        ELSE IF plus_match.found
        THEN [by |-> 8,
              value |-> PyInt(DigitsToInt(plus_match.groups[1])
                              + DigitsToInt(plus_match.groups[2]))]
        ELSE IF star_after_match.found
        THEN [by |-> 9, value |-> PyInt(DigitsToInt(star_after_match.groups[1]))]
        ELSE [by |-> 0, value |-> PyNone]

(***************************************************************************)
(* Merging_code.py: extract_weight_quantity                                *)
(***************************************************************************)
KG == <<"K", "G">>

KGS == <<"K", "G", "S">>

G == <<"G">>

GM == <<"G", "M">>

GR == <<"G", "R">>

GRAM == <<"G", "R", "A", "M">>

GRAMS == <<"G", "R", "A", "M", "S">>

L == <<"L">>

LTR == <<"L", "T", "R">>

LITRE == <<"L", "I", "T", "R", "E">>

ML == <<"M", "L">>

M_L == <<"M", " ", "L">>

LT == <<"L", "T">>

\* (\d+(?:\.\d+)?)\s*(KG|KGS|G|GM|GR|GRAM|GRAMS|L|LTR|LITRE|ML|M L|LT)
\*     (?=[\s\*×X0-9\W]|$)
\* The text searched is upper case, so re.IGNORECASE adds no match.
weight_re ==
    RCat(<<RGrp(1, RCat(<<RPlus(RDigit),
                          ROpt(RCat(<<RChr({"."}), RPlus(RDigit)>>))>>)),
           RStar(RSpace),
           RGrp(2, RAlt(<<RLit(KG), RLit(KGS), RLit(G), RLit(GM), RLit(GR),
                          RLit(GRAM), RLit(GRAMS), RLit(L), RLit(LTR),
                          RLit(LITRE), RLit(ML), RLit(M_L), RLit(LT)>>)),
           RLook(RAlt(<<RChr(SpaceChars \cup {"*", TIMES, "X"} \cup Digits
                             \cup NonWordChars),
                        REnd>>))>>)

RECURSIVE Pow10(_)
Pow10(n) == IF n = 0 THEN 1 ELSE 10 * Pow10(n - 1)

\* The offset of the first "." of ds, or 0.
DotAt(ds) ==
    IF \E i \in 1..Len(ds) : ds[i] = "."
    THEN CHOOSE i \in 1..Len(ds) : ds[i] = "." /\ \A j \in 1..(i - 1) : ds[j] # "."
    ELSE 0

\* float() of a numeral "ddd" or "ddd.ddd", kept exact as num / den.
ParseFloat(ds) ==
    LET dot == DotAt(ds)
    IN  IF dot = 0
        THEN [num |-> DigitsToInt(ds), den |-> 1]
        ELSE [num |-> DigitsToInt(SubSeq(ds, 1, dot - 1) \o SubSeq(ds, dot + 1, Len(ds))),
              den |-> Pow10(Len(ds) - dot)]

\* A variant of GramFactor without the litre branch: L, LTR and LITRE fall to
\* the final else.
GramFactorNoLitre(unit) ==
    IF unit \in {KG, KGS} THEN 1000
    ELSE IF unit \in {G, GM, GR, GRAM, GRAMS} THEN 1
    ELSE IF unit \in {ML, M_L} THEN 1
    ELSE 1

\* The factor of the if/elif chain that converts the value to grams.
GramFactor(unit) ==
    IF unit \in {KG, KGS} THEN 1000
    ELSE IF unit \in {G, GM, GR, GRAM, GRAMS} THEN 1
    ELSE IF unit \in {L, LTR, LITRE} THEN 1000
    ELSE IF unit \in {ML, M_L} THEN 1
    ELSE 1

\* int(round(grams)) for grams = num * factor / den, as the set of results
\* the float arithmetic can give. round() takes a float half way between two
\* integers to the even one. The product value * 1000 of a value with four
\* or more decimals is rounded to a double first, which can fall on either
\* side of the half: both neighbours are possible there.
RoundGrams(num, den, factor) ==
    LET n == num * factor
        q == n \div den
        r == n % den
    IN  IF 2 * r < den THEN {q}
        ELSE IF 2 * r > den THEN {q + 1}
        ELSE IF factor = 1 THEN {IF q % 2 = 0 THEN q ELSE q + 1}
        ELSE {q, q + 1}

RECURSIVE IntToDigits(_)
\* str() of a natural number.
IntToDigits(n) ==
    IF n < 10 THEN <<ToString(n)>> ELSE IntToDigits(n \div 10) \o <<ToString(n % 10)>>

\* The text the pattern searches: str(name).upper().strip()
WeightText(name) == Strip(Upper(name))

\* extract_weight_quantity(name): the set of values the function can return
\* (one value, but for the two-sided ties of RoundGrams).
extract_weight_quantity(name) ==
    IF IsNa(name)
    THEN {None}
    ELSE LET match == ReSearch(weight_re, WeightText(name))
         IN  IF ~match.found
             THEN {None}
             ELSE LET value == ParseFloat(match.groups[1])
                      unit == match.groups[2]
                  IN  {IntToDigits(g) \o <<"G">> :
                         g \in RoundGrams(value.num, value.den, GramFactor(unit))}

(***************************************************************************)
(* Cosine_Similarity_Code.py: compute_similarity                           *)
(* Scores are kept in millionths (0 .. 1000000), rounded down: Python's    *)
(* floats carry more digits, and a millionth separates every pair of       *)
(* scores the titles of this model produce.                                *)
(***************************************************************************)
\* str.lower() on one character.
LowerChar(c) ==
    IF c \in UpperLetters
    THEN LowerSeq[CHOOSE i \in 1..26 : UpperSeq[i] = c]
    ELSE c

\* str.lower()
Lower(s) == [i \in 1..Len(s) |-> LowerChar(s[i])]

\* TfidfVectorizer's default token_pattern: (?u)\b\w\w+\b
TokenRe ==
    RGrp(1, RCat(<<RWordB, RChr(WordChars), RPlus(RChr(WordChars)), RWordB>>))

\* The terms of a text: TfidfVectorizer lowercases, then takes the tokens.
Tokenize(text) == ReFindAll(TokenRe, Lower(text))

\* The term frequency of t in a token list.
TermCount(tokens, t) == Cardinality({i \in 1..Len(tokens) : tokens[i] = t})

RECURSIVE SumSeq(_)
SumSeq(xs) == IF xs = <<>> THEN 0 ELSE Head(xs) + SumSeq(Tail(xs))

\* The first occurrences of a token list: one entry per term.
Distinct(tokens) ==
    SelectSeq([i \in 1..Len(tokens) |->
                 IF \E j \in 1..(i - 1) : tokens[j] = tokens[i] THEN <<>> ELSE <<tokens[i]>>],
              LAMBDA x : x # <<>>)

\* Natural numbers beyond 2^31, as little-endian sequences of limbs.
BigBase == 10000

RECURSIVE BigOfInt(_)
BigOfInt(n) == IF n = 0 THEN <<>> ELSE <<n % BigBase>> \o BigOfInt(n \div BigBase)

RECURSIVE BigAddC(_, _, _)
BigAddC(a, b, carry) ==
    IF a = <<>> /\ b = <<>>
    THEN (IF carry = 0 THEN <<>> ELSE <<carry>>)
    ELSE LET x == IF a = <<>> THEN 0 ELSE Head(a)
             y == IF b = <<>> THEN 0 ELSE Head(b)
             t == x + y + carry
         IN  <<t % BigBase>>
             \o BigAddC(IF a = <<>> THEN <<>> ELSE Tail(a),
                        IF b = <<>> THEN <<>> ELSE Tail(b),
                        t \div BigBase)

BigAdd(a, b) == BigAddC(a, b, 0)

RECURSIVE BigMulLimb(_, _, _)
BigMulLimb(a, m, carry) ==
    IF a = <<>>
    THEN (IF carry = 0 THEN <<>> ELSE <<carry>>)
    ELSE LET t == Head(a) * m + carry
         IN  <<t % BigBase>> \o BigMulLimb(Tail(a), m, t \div BigBase)

RECURSIVE BigMul(_, _)
BigMul(a, b) ==
    IF b = <<>> \/ a = <<>>
    THEN <<>>
    ELSE BigAdd(IF Head(b) = 0 THEN <<>> ELSE BigMulLimb(a, Head(b), 0),
                LET rest == BigMul(a, Tail(b))
                IN  IF rest = <<>> THEN <<>> ELSE <<0>> \o rest)

RECURSIVE BigLeqFrom(_, _, _)
BigLeqFrom(a, b, i) ==
    IF i = 0 THEN TRUE
    ELSE IF a[i] # b[i] THEN a[i] < b[i]
    ELSE BigLeqFrom(a, b, i - 1)

\* a <= b
BigLeq(a, b) ==
    IF Len(a) # Len(b) THEN Len(a) < Len(b) ELSE BigLeqFrom(a, b, Len(a))

\* 10^9
Nano == 1000000000

\* The squared idf of a term that one of the two texts has and the other
\* has not, in units of 10^-9: (ln((1 + 2) / (1 + 1)) + 1)^2 = 1.975332170...
\* with TfidfVectorizer's smooth_idf. A term of both texts has idf 1.
IdfSquaredNano == 1975332170

\* 10^30
Big10p30 == <<0, 0, 0, 0, 0, 0, 0, 100>>

RECURSIVE SqrtSearch(_, _, _, _)
\* The largest c in lo .. hi with c * c * ab <= top, given that lo is one.
SqrtSearch(lo, hi, ab, top) ==
    IF lo = hi
    THEN lo
    ELSE LET mid == (lo + hi + 1) \div 2
         IN  IF BigLeq(BigMul(BigMul(BigOfInt(mid), BigOfInt(mid)), ab), top)
             THEN SqrtSearch(mid, hi, ab, top)
             ELSE SqrtSearch(lo, mid - 1, ab, top)

\* The cosine of the two l2-normalised tf-idf vectors, in millionths: the
\* dot product n of the shared terms over the two norms, where a text's
\* squared norm is p + idf^2 * q for p the squares of the terms it shares
\* and q the squares of the terms it has alone.
CosineMicro(n, p1, q1, p2, q2) ==
    IF n = 0
    THEN 0
    ELSE LET a == BigAdd(BigMul(BigOfInt(p1), BigOfInt(Nano)),
                         BigMul(BigOfInt(q1), BigOfInt(IdfSquaredNano)))
             b == BigAdd(BigMul(BigOfInt(p2), BigOfInt(Nano)),
                         BigMul(BigOfInt(q2), BigOfInt(IdfSquaredNano)))
         IN  SqrtSearch(0, 1000000, BigMul(a, b),
                        BigMul(BigOfInt(n * n), Big10p30))

\* compute_similarity(text1, text2). TfidfVectorizer.fit raises ValueError
\* ("empty vocabulary") when neither text has a token; a text without a
\* token has the zero vector, whose cosine with anything is 0.0.
compute_similarity(text1, text2) ==
    LET tok1 == Tokenize(text1)
        tok2 == Tokenize(text2)
        d1 == Distinct(tok1)
        d2 == Distinct(tok2)
        tf1(t) == TermCount(tok1, t)
        tf2(t) == TermCount(tok2, t)
        Sq(x) == x * x
        n == SumSeq([i \in 1..Len(d1) |-> tf1(d1[i][1]) * tf2(d1[i][1])])
        p1 == SumSeq([i \in 1..Len(d1) |->
                        IF tf2(d1[i][1]) > 0 THEN Sq(tf1(d1[i][1])) ELSE 0])
        q1 == SumSeq([i \in 1..Len(d1) |->
                        IF tf2(d1[i][1]) > 0 THEN 0 ELSE Sq(tf1(d1[i][1]))])
        p2 == SumSeq([i \in 1..Len(d2) |->
                        IF tf1(d2[i][1]) > 0 THEN Sq(tf2(d2[i][1])) ELSE 0])
        q2 == SumSeq([i \in 1..Len(d2) |->
                        IF tf1(d2[i][1]) > 0 THEN 0 ELSE Sq(tf2(d2[i][1]))])
    IN  IF tok1 = <<>> /\ tok2 = <<>>
        THEN [raised |-> TRUE, micro |-> 0]
        ELSE [raised |-> FALSE, micro |-> CosineMicro(n, p1, q1, p2, q2)]

(***************************************************************************)
(* Merging_code.py: detect_packaging_type, standardize_columns             *)
(***************************************************************************)
\* sub in s
Contains(s, sub) ==
    \E i \in 1..(Len(s) - Len(sub) + 1) : SubSeq(s, i, i + Len(sub) - 1) = sub

\* str(x) of a cell: a missing value prints as "nan".
StrOf(x) == IF IsNa(x) THEN <<"n", "a", "n">> ELSE x

carton_keywords ==
    {<<"C", "T", "N">>, <<"C", "A", "R", "T", "O", "N">>,
     <<"C", "A", "R", "T", "O", "N", "S">>}

\* A variant of detect_packaging_type that does not upper-case the name.
detect_packaging_type_case_sensitive(name) ==
    IF IsNa(name)
    THEN "NON-CTN"
    ELSE IF \E k \in carton_keywords : Contains(Strip(name), k) THEN "CTN" ELSE "NON-CTN"

detect_packaging_type(name) ==
    IF IsNa(name)
    THEN "NON-CTN"
    ELSE LET text == Upper(Strip(name))
         IN  IF \E k \in carton_keywords : Contains(text, k) THEN "CTN" ELSE "NON-CTN"

\* A variant of UnitPackagingType that searches the cell for the keywords.
UnitPackagingTypeKeywords(x) ==
    IF \E k \in carton_keywords : Contains(Upper(Strip(StrOf(x))), k)
    THEN "CTN" ELSE "NON-CTN"

\* The lambda of the "Amal Trading" branch, on a cell of the Unit column.
UnitPackagingType(x) ==
    IF Upper(Strip(StrOf(x))) = <<"C", "T", "N">> THEN "CTN" ELSE "NON-CTN"

\* col_map.get(col, col)
col_map(col) ==
    CASE col = "Item Name" -> "Product_Name"
      [] col = "PRODUCT TITLE" -> "Product_Name"
      [] col = "Name" -> "Product_Name"
      [] col = "Product_Name" -> "Product_Name"
      [] col = "SERIAL NUMBER" -> "Serial_Number"
      [] col = "SL NO" -> "Serial_Number"
      [] col = "Serial_Number" -> "Serial_Number"
      [] col = "Unit" -> "Unit"
      [] OTHER -> col

\* The column names after df.rename in standardize_columns.
RenamedColumns(columns) == [i \in 1..Len(columns) |-> col_map(columns[i])]

HasColumn(columns, col) == \E i \in 1..Len(columns) : columns[i] = col

\* The positions of the columns named col.
ColumnsNamed(columns, col) == {i \in 1..Len(columns) : columns[i] = col}

\* A variant of StandardizeRaises that only rejects a file without columns.
StandardizeRaisesOnNoColumn(columns) == columns = <<>>

\* standardize_columns raises ValueError when no column is a product name.
StandardizeRaises(columns) == ~HasColumn(RenamedColumns(columns), "Product_Name")

\* The columns of the frame standardize_columns returns when it does not
\* raise: the renamed columns, and Supplier, which df['Supplier'] = ... adds
\* when no column has that name.
standardize_columns(columns) ==
    IF HasColumn(RenamedColumns(columns), "Supplier")
    THEN RenamedColumns(columns)
    ELSE Append(RenamedColumns(columns), "Supplier")

\* The suppliers of input_files, in the order the dict lists them.
input_files == <<"Amal Trading", "Future", "Red Frozen", "Chettiot">>

\* A file that os.path.exists does not find.
MissingFile == [exists |-> FALSE]

\* A CSV file as pd.read_csv reads it: the header and the rows of cells.
CsvFile(columns, rows) == [exists |-> TRUE, columns |-> columns, rows |-> rows]

\* The cell of a row under the one column named col (None when there is no
\* such column: the loop creates the missing required column with None).
CellOf(columns, row, col) ==
    IF HasColumn(columns, col)
    THEN row[CHOOSE i \in ColumnsNamed(columns, col) : TRUE]
    ELSE None

\* One row of df_clean, but for Weight_Quantity, which CleanRows adds.
CleanRow(columns, row, supplier) ==
    LET name == CellOf(columns, row, "Product_Name")
    IN  [Product_Name |-> name,
         Serial_Number |-> CellOf(columns, row, "Serial_Number"),
         Supplier |-> supplier,
         Packaging_Type |->
             IF supplier = "Amal Trading" /\ HasColumn(columns, "Unit")
             THEN UnitPackagingType(CellOf(columns, row, "Unit"))
             ELSE detect_packaging_type(name),
         Units_Per_Carton |-> extract_units_per_carton(name).value]

WithWeight(r, w) ==
    [Product_Name |-> r.Product_Name, Serial_Number |-> r.Serial_Number,
     Supplier |-> r.Supplier, Weight_Quantity |-> w,
     Packaging_Type |-> r.Packaging_Type, Units_Per_Carton |-> r.Units_Per_Carton]

RECURSIVE CleanRows(_, _, _)
\* The frames df_clean can be for the rows of one file (columns already
\* renamed): one frame, but for the two-sided ties of RoundGrams.
CleanRows(columns, rows, supplier) ==
    IF rows = <<>>
    THEN {<<>>}
    ELSE LET r == CleanRow(columns, Head(rows), supplier)
         IN  {<<WithWeight(r, w)>> \o rest :
                w \in extract_weight_quantity(r.Product_Name),
                rest \in CleanRows(columns, Tail(rows), supplier)}

RECURSIVE ConcatLaterFirst(_)
\* A variant of Concat that puts the later frames first.
ConcatLaterFirst(frames) ==
    IF frames = <<>> THEN <<>> ELSE ConcatLaterFirst(Tail(frames)) \o Head(frames)

RECURSIVE Concat(_)
\* pd.concat(all_data, ignore_index=True)
Concat(frames) == IF frames = <<>> THEN <<>> ELSE Head(frames) \o Concat(Tail(frames))

\* The key of subset=['Product_Name', 'Supplier'].
DupKey(r) == <<r.Product_Name, r.Supplier>>

\* A variant of drop_duplicates with keep='last'.
drop_duplicates_keep_last(rows) ==
    LET keep(i) == ~\E j \in (i + 1)..Len(rows) : DupKey(rows[j]) = DupKey(rows[i])
        F[i \in 0..Len(rows)] ==
            IF i = 0 THEN <<>>
            ELSE IF keep(i) THEN Append(F[i - 1], rows[i]) ELSE F[i - 1]
    IN  F[Len(rows)]

\* drop_duplicates(subset=['Product_Name', 'Supplier']) with its default
\* keep='first', then reset_index(drop=True).
drop_duplicates(rows) ==
    LET keep(i) == ~\E j \in 1..(i - 1) : DupKey(rows[j]) = DupKey(rows[i])
        F[i \in 0..Len(rows)] ==
            IF i = 0 THEN <<>>
            ELSE IF keep(i) THEN Append(F[i - 1], rows[i]) ELSE F[i - 1]
    IN  F[Len(rows)]

\* A variant of ProductId that numbers from 0: f"product_{i}".
ProductIdFromZero(i) ==
    <<"p", "r", "o", "d", "u", "c", "t", "_">> \o IntToDigits(i)

\* f"product_{i+1}" for i of range(len(final_df)).
ProductId(i) ==
    <<"p", "r", "o", "d", "u", "c", "t", "_">> \o IntToDigits(i + 1)

\* final_df with its Product_ID column.
WithProductIds(rows) ==
    [k \in 1..Len(rows) |->
       [Product_ID |-> ProductId(k - 1),
        Product_Name |-> rows[k].Product_Name,
        Serial_Number |-> rows[k].Serial_Number,
        Supplier |-> rows[k].Supplier,
        Weight_Quantity |-> rows[k].Weight_Quantity,
        Packaging_Type |-> rows[k].Packaging_Type,
        Units_Per_Carton |-> rows[k].Units_Per_Carton]]

(***************************************************************************)
(* Cosine_Similarity_Code.py: the match resolver of main()                 *)
(***************************************************************************)
\* range(1, 6): the candidate slots url_1 .. url_5.
NumSlots == 5

\* The decision threshold 0.6, in millionths.
ThresholdMicro == 600000

\* The key url_i, and the URL the records of the model store under it.
UrlOf(i) == "url_" \o ToString(i)

\* best_url = None
NoUrl == "None"

\* round(x, 3), in thousandths.
Round3(micro) == (micro + 500) \div 1000

\* A variant of IsBetter that also lets an equal score replace the best.
IsBetterOrEqual(similarity, best_similarity) == similarity >= best_similarity

\* "similarity > best_similarity"
IsBetter(similarity, best_similarity) == similarity > best_similarity

\* The input title of the model's records, and the candidate titles: the
\* same words (score 1.0), two titles whose scores 0.709297 and 0.709053
\* round to the same 0.709, one that scores 0.599518 (0.6 once rounded), one
\* with no word of the input, and the empty title.
InputTeaBag == <<"T", "e", "a", " ", "B", "a", "g", " ">>

TitleSame == <<"T", "E", "A", " ", "B", "A", "G">>

TitleBox == <<"t", "e", "a", " ", "b", "a", "g", " ", "b", "o", "x">>

TitleMugBox ==
    <<"t", "e", "a", " ", "b", "a", "g", " ", "b", "a", "g", " ", "m",
      "u", "g", " ", "b", "o", "x">>

TitleNear ==
    <<"t", "e", "a", " ", "b", "a", "g", " ", "b", "a", "g", " ", "b",
      "a", "g", " ", "b", "a", "g", " ", "b", "o", "x", " ", "b", "o",
      "x", " ", "b", "o", "x">>

TitleUnrelated == <<"m", "u", "g", " ", "c", "u", "p">>

TitleEmpty == <<>>

CosInputTitles == {InputTeaBag}

CosTitles == {TitleSame, TitleBox, TitleMugBox, TitleNear, TitleUnrelated, TitleEmpty}

\* An input title and a candidate title without a term: the tokenizer keeps
\* words of two or more characters.
InputNoTerm == <<"X">>

TitleNoTerm == <<"-">>

\* The title the URL scraper stores in a slot it could not fill, and an
\* input title with the same words.
TitlePlaceholder ==
    <<"N", "o", "t", " ", "A", "v", "a", "i", "l", "a", "b", "l", "e">>

InputLikePlaceholder ==
    <<"N", "O", "T", " ", "A", "V", "A", "I", "L", "A", "B", "L", "E">>

\* An input title and a candidate title that share two of their terms.
InputPepsi ==
    <<"P", "e", "p", "s", "i", " ", "3", "3", "0", "M", "L", " ", "C",
      "a", "n">>

TitlePepsiCola ==
    <<"P", "e", "p", "s", "i", " ", "C", "o", "l", "a", " ", "3", "3",
      "0", " ", "m", "l", " ", "C", "a", "n">>

AllInputTitles == {InputTeaBag, InputNoTerm, InputLikePlaceholder, InputPepsi}

AllTitles == CosTitles \cup {TitleNoTerm, TitlePlaceholder, TitlePepsiCola}

\* compute_similarity on the texts main() passes it, computed once.
similarity_table ==
    [pair \in {<<Lower(Strip(a)), Lower(b)>> : a \in AllInputTitles, b \in AllTitles} |->
       compute_similarity(pair[1], pair[2])]

Similarity(text1, text2) ==
    IF <<text1, text2>> \in DOMAIN similarity_table
    THEN similarity_table[<<text1, text2>>]
    ELSE compute_similarity(text1, text2)

\* The local variables of one iteration of "for record in data" before the
\* slot loop.
InitialLocals ==
    [similarities |-> {}, best_similarity |-> 0, best_url |-> NoUrl, raised |-> FALSE]

\* The body of the slot loop for a slot whose title scored sim: the keys
\* url_i_similarity gets round(similarity, 3), and a strictly better score
\* replaces best_similarity and best_url.
ScoreSlot(record, i, loc, similarity) ==
    [similarities |-> loc.similarities \cup {<<i, Round3(similarity)>>},
     best_similarity |-> IF IsBetter(similarity, loc.best_similarity)
                         THEN similarity ELSE loc.best_similarity,
     best_url |-> IF IsBetter(similarity, loc.best_similarity)
                  THEN record.url[i] ELSE loc.best_url,
     raised |-> FALSE]

\* The locals after compute_similarity returned, or raised.
AfterSimilarity(record, i, loc, sim) ==
    IF sim.raised
    THEN [loc EXCEPT !.raised = TRUE]
    ELSE ScoreSlot(record, i, loc, sim.micro)

RECURSIVE ScoreSlots(_, _, _)
\* The slot loop "for i in range(1, 6)" from slot i on: the locals after it.
\* similarities holds the pairs <<i, round(similarity, 3)>> of the keys
\* url_i_similarity. A slot without a title, or with an empty one, is skipped.
ScoreSlots(record, i, loc) ==
    IF i > NumSlots \/ loc.raised
    THEN loc
    ELSE IF record.url_title[i] = TitleEmpty
    THEN ScoreSlots(record, i + 1, loc)
    ELSE ScoreSlots(record, i + 1,
           AfterSimilarity(record, i, loc,
             Similarity(Lower(Strip(record.input_title)), Lower(record.url_title[i]))))

\* A variant of Decide whose else branch keeps best_url.
DecideKeepUrl(best_similarity, best_url) ==
    IF best_similarity >= ThresholdMicro
    THEN [status |-> "Available", matched_url |-> best_url]
    ELSE [status |-> "Not Available", matched_url |-> best_url]

\* The decision "if best_similarity >= 0.6".
Decide(best_similarity, best_url) ==
    IF best_similarity >= ThresholdMicro
    THEN [status |-> "Available", matched_url |-> best_url]
    ELSE [status |-> "Not Available", matched_url |-> "Not available everywhere"]

\* The record appended to output_data: the input record, updated.
OutputRecord(record, loc) ==
    [id |-> record.id, serial_number |-> record.serial_number,
     input_title |-> record.input_title,
     url |-> record.url, url_title |-> record.url_title,
     similarities |-> loc.similarities,
     best_similarity |-> Round3(loc.best_similarity),
     matched_url |-> Decide(loc.best_similarity, loc.best_url).matched_url,
     status |-> Decide(loc.best_similarity, loc.best_url).status]

\* The row of the INSERT INTO url_similarity_results.
DbRow(record, loc) ==
    [id |-> record.id, serial_number |-> record.serial_number,
     input_title |-> Strip(record.input_title),
     matched_url |-> Decide(loc.best_similarity, loc.best_url).matched_url,
     status |-> Decide(loc.best_similarity, loc.best_url).status]

\* A record of the input JSON with the given titles in its five slots.
QueryRecord(id, input_title, titles) ==
    [id |-> id, serial_number |-> id, input_title |-> input_title,
     url |-> [i \in 1..NumSlots |-> UrlOf(i)], url_title |-> titles]

(***************************************************************************)
(* Amazon_url_scraping.py: files, records and helpers                      *)
(***************************************************************************)
\* A file that has not been written.
NoFile == [written |-> FALSE]

FileOf(content) == [written |-> TRUE, content |-> content]

\* The dict {}.
EmptyDict == [sn \in {} |-> sn]

\* load_json: the dict of JSON_FILE, {} when the file does not exist.
load_json(file) == IF file.written THEN file.content ELSE EmptyDict

\* A variant of save_json that writes data alone.
save_json_overwrite(file, dict) == FileOf(dict)

\* save_json: the file after data was merged into its dict and written back.
save_json(file, dict) ==
    FileOf([sn \in DOMAIN load_json(file) \cup DOMAIN dict |->
              IF sn \in DOMAIN dict THEN dict[sn] ELSE load_json(file)[sn]])

\* {serial_number: record}
DictOf(serial_number, record) == [sn \in {serial_number} |-> record]

\* existing[sn] = value
DictPut(dict, serial_number, record) ==
    [sn \in DOMAIN dict \cup {serial_number} |->
       IF sn = serial_number THEN record ELSE dict[sn]]

\* The sentinel of a slot without a search result.
NotAvailable == "Not Available"

\* "while len(top_urls) < 5" and "product_links[:5]"
NumTopUrls == 5

\* "for attempt in range(3)"
MaxAttempts == 3

\* A variant of IsLastAttempt under which no failed attempt is re-raised.
IsLastAttemptNever(n) == FALSE

\* "if attempt == 2: raise"
IsLastAttempt(n) == n = 2

\* A search result without the link a_tag.
NoHref == "<no a_tag>"

\* full_url of a search result.
FullUrl(link) ==
    IF link.href = NoHref THEN NotAvailable ELSE "https://www.amazon.ae" \o link.href

\* top_urls and top_titles after the loop over product_links[:5].
TopEntries(product_links) ==
    [k \in 1..(IF Len(product_links) < NumTopUrls THEN Len(product_links) ELSE NumTopUrls) |->
       [url |-> FullUrl(product_links[k]), title |-> product_links[k].title]]

\* top_urls and top_titles after "Fill missing entries".
FillMissing(entries) ==
    entries \o [k \in 1..(NumTopUrls - Len(entries)) |->
                  [url |-> NotAvailable, title |-> NotAvailable]]

\* The record of a scraped product: the keys 1st_url .. 5th_url are the
\* field url, the keys 1st_url_title .. 5th_url_title the field url_title.
ResultRecord(serial_number, input_title, entries) ==
    [Serial_Number |-> serial_number, input_title |-> input_title,
     url |-> [k \in 1..Len(entries) |-> entries[k].url],
     url_title |-> [k \in 1..Len(entries) |-> entries[k].title]]

\* The record the except branch stores.
MinimalRecord(serial_number, input_title) ==
    [Serial_Number |-> serial_number, input_title |-> input_title]

\* A line of LOG_FILE: the message, its serial number and attempt number.
LogLine(event, serial_number, n) ==
    [event |-> event, serial |-> serial_number, attempt |-> n]

(***************************************************************************)
(* AMAZON_DATA_SCRAPER_CURL.py: rows                                       *)
(***************************************************************************)
\* fetch_all_rows: the rows of url_similarity WHERE IFNULL(scraped,0) = 0.
fetch_all_rows(table) == SelectSeq(table, LAMBDA r : r.scraped = 0)

\* A variant of mark_scraped that leaves the table as it is.
mark_scraped_nothing(table, scrape_id) == table

\* mark_scraped: UPDATE url_similarity SET scraped = 1 WHERE id = scrape_id.
mark_scraped(table, scrape_id) ==
    [k \in 1..Len(table) |->
       IF table[k].id = scrape_id THEN [table[k] EXCEPT !.scraped = 1] ELSE table[k]]

\* Whether main() writes the "Not Available" row without fetching the page.
UrlMissing(r) == r.matched_url = "" \/ r.status = "Not Available"

\* row_out: the Scrape_ID, the Source_URL and what the page gave.
RowOut(r, outcome) ==
    [Scrape_ID |-> r.id, Serial_Number |-> r.serial_number,
     Source_URL |-> IF r.matched_url = "" THEN NotAvailable ELSE r.matched_url,
     Product_Name |-> IF outcome = "scraped" THEN "title" ELSE NotAvailable,
     Description |-> IF outcome = "blocked" THEN "Blocked by anti-bot" ELSE NotAvailable]

(***************************************************************************)
(* Inputs of the model                                                      *)
(***************************************************************************)
RECURSIVE PieceStrings(_, _)
\* The texts made of at most n of the given pieces.
PieceStrings(pieces, n) ==
    IF n = 0
    THEN {<<>>}
    ELSE LET shorter == PieceStrings(pieces, n - 1)
         IN  shorter \cup {t \o piece : t \in shorter, piece \in pieces}

Name4X18X56G == <<"4", " ", "X", " ", "1", "8", " ", "X", " ", "5", "6", "G">>

Name96PCS == <<"9", "6", "P", "C", "S">>

NameBracket == <<"(", "1", ".", "5", " ", "M", "L", "*", "1", "2", ")">>

Name36Plus6 == <<"3", "6", "+", "6">>

NamePlainText ==
    <<"p", "l", "a", "i", "n", " ", "t", "e", "x", "t", " ", "n", "o",
      " ", "n", "u", "m", "b", "e", "r", "s">>

Name24X500ML ==
    <<"2", "4", "X", "5", "0", "0", " ", "M", "L", " ", "C", "T", "N">>

Name4X18X56 == <<"4", " ", "x", " ", "1", "8", " ", "x", " ", "5", "6">>

Name0PCS == <<"0", "P", "C", "S">>

\* A fallback pattern ("X4") ahead of a pack count ("18PCS").
NameX4Then18PCS == <<"X", "4", " ", "1", "8", "P", "C", "S">>

UnitExamples ==
    {Name4X18X56G, Name96PCS, NameBracket, Name36Plus6, NamePlainText,
     Name24X500ML, Name4X18X56, Name0PCS, NameX4Then18PCS, NaN}

UnitPieces ==
    {<<"4">>, <<"1", "8">>, <<"0">>, <<" ">>, <<"X">>, <<"*">>, <<"P", "C", "S">>,
     <<"G">>, <<"+">>, <<"B", "A", "G", "S">>}

MaxUnitPieces == 3

\* The product names extract_units_per_carton is applied to.
UnitNames == UnitExamples \cup PieceStrings(UnitPieces, MaxUnitPieces)

Weight2p5KG == <<"2", ".", "5", "K", "G">>

Weight5KGS == <<"5", "k", "g", "s">>

Weight5GM == <<"5", "G", "M">>

Weight5GR == <<"5", "G", "R">>

Weight5GRAM == <<"5", "G", "R", "A", "M">>

Weight5GRAMS == <<"5", " ", "G", "R", "A", "M", "S">>

Weight5LTR == <<"5", "L", "T", "R">>

Weight5LITRE == <<"5", "L", "I", "T", "R", "E">>

Weight340GX24 == <<"3", "4", "0", "G", "X", "2", "4">>

Weight500ml == <<"5", "0", "0", " ", "m", "l">>

WeightExamples ==
    {Weight2p5KG, Weight5KGS, Weight5GM, Weight5GR, Weight5GRAM, Weight5GRAMS,
     Weight5LTR, Weight5LITRE, Weight340GX24, Weight500ml, NaN}

WeightPieces ==
    {<<"2", ".", "5">>, <<"0", ".", "5">>, <<"5">>, <<" ">>, <<"X">>, <<"S">>,
     KG, G, L, LT, ML, M_L}

MaxWeightPieces == 3

\* The product names extract_weight_quantity is applied to.
WeightNames == WeightExamples \cup PieceStrings(WeightPieces, MaxWeightPieces)

\* The names detect_packaging_type is applied to.
PackPieces ==
    {<<"C", "T", "N">>, <<"c", "t", "n">>, <<"C", "a", "r", "t", "o", "n">>,
     <<"C">>, <<"T", "N">>, <<"S">>, <<" ">>, <<"B", "O", "X">>, <<"5">>}

MaxPackPieces == 3

PackNames == {NaN} \cup PieceStrings(PackPieces, MaxPackPieces)

\* The texts compute_similarity is applied to: words of two letters, which
\* the tokenizer keeps, and a word of one letter, which it drops.
SimPieces == {<<"a", "a">>, <<"b", "b">>, <<" ">>, <<"a">>}

MaxSimPieces == 2

SimTexts == PieceStrings(SimPieces, MaxSimPieces)

\* The headers of the supplier files: one with a product name and a Unit
\* column, one with a product name and no Unit column, one no column of
\* which col_map renames to Product_Name.
MergeColumns == <<"SL NO", "Item Name", "Unit">>

ColumnsNoUnit == <<"SERIAL NUMBER", "PRODUCT TITLE", "Pack">>

ColumnsNoName == <<"SL NO", "Title", "Unit">>

\* A header with two aliases of the product name.
ColumnsTwoNames == <<"Item Name", "Name", "Unit">>

MergeHeaders == {MergeColumns, ColumnsNoUnit, ColumnsNoName, ColumnsTwoNames}

MergeNameA == <<"5", "K", "G", " ", "C", "T", "N">>

MergeNameB == <<"9", "6", "P", "C", "S">>

\* Cells of the third column.
CellBox == <<"B", "O", "X">>

CellCtn == <<" ", "c", "t", "n">>

\* The rows of the files: the first name under two serial numbers, and the
\* second name; the name of the first says CTN and its third cell does not,
\* the third cell of the second says ctn and its name does not.
MergeRows ==
    {<<<<"1">>, MergeNameA, CellBox>>, <<<<"2">>, MergeNameA, CellBox>>,
     <<<<"1">>, MergeNameB, CellCtn>>}

\* A row of empty cells, which pd.read_csv reads as NaN.
RowOfNaN == <<NaN, NaN, NaN>>

\* The number of rows of all the supplier files together.
MaxRows == 3

RECURSIVE RowSeqs(_)
\* The sequences of at most n rows.
RowSeqs(n) ==
    IF n = 0
    THEN {<<>>}
    ELSE LET shorter == RowSeqs(n - 1)
         IN  shorter \cup {Append(t, row) : t \in shorter, row \in MergeRows}

RECURSIVE FileAssignments(_, _)
\* The contents of n supplier files with at most budget rows together; each
\* file is missing or a CSV file.
FileAssignments(n, budget) ==
    IF n = 0
    THEN {<<>>}
    ELSE UNION {{<<f>> \o rest : rest \in FileAssignments(n - 1,
                                   budget - (IF f.exists THEN Len(f.rows) ELSE 0))} :
                f \in {MissingFile} \cup {CsvFile(MergeColumns, rows) : rows \in RowSeqs(budget)}}

\* The contents of the supplier files when each is missing or a file of one
\* row under any of the headers.
HeaderAssignments ==
    [1..Len(input_files) ->
        {MissingFile} \cup
        {CsvFile(columns, <<row>>) :
           columns \in MergeHeaders,
           row \in {<<<<"1">>, MergeNameB, CellCtn>>, RowOfNaN}}]

\* Cells of the Unit column: a keyword that is not CTN, CTN with a space
\* after it, and the empty cell.
CellCarton == <<"C", "A", "R", "T", "O", "N">>

CellCtnSpace == <<"C", "T", "N", " ">>

UnitCells == {CellCarton, CellCtnSpace, NaN}

\* The contents of the supplier files when the first two are files of one
\* row, of either name and any of the Unit cells, and the others are missing.
UnitAssignments ==
    {<<CsvFile(MergeColumns, <<<<<<"1">>, p[1], p[2]>>>>),
       CsvFile(MergeColumns, <<<<<<"1">>, p[3], p[4]>>>>),
       MissingFile, MissingFile>> :
       p \in {MergeNameA, MergeNameB} \X UnitCells \X {MergeNameA, MergeNameB} \X UnitCells}

\* The serial numbers and item names of the rows of CSV_FILE.
UrlSerials == {"1", "2"}

ItemName(serial_number) == "item " \o serial_number

\* The number of rows of CSV_FILE.
MaxProducts == 2

\* The CSV files: the rows may repeat a serial number.
CsvFiles ==
    UNION {[1..n -> {[sl_no |-> sn, item_name |-> ItemName(sn)] : sn \in UrlSerials}] :
           n \in 1..MaxProducts}

\* The search results of a page: none, two of which the second has no
\* link, or six.
ResultPages ==
    {<<>>,
     <<[href |-> "/r1", title |-> "title 1"], [href |-> NoHref, title |-> "title 2"]>>,
     [k \in 1..6 |-> [href |-> "/r" \o ToString(k), title |-> "title " \o ToString(k)]]}

\* The number of runs of a scraper.
MaxRuns == 2

\* The tables url_similarity: rows of distinct ids, a matched row and an
\* unmatched one, some already marked scraped.
MaxSourceRows == 2

SourceRow(id, scraped) ==
    [id |-> id, serial_number |-> ToString(id),
     matched_url |-> IF id = 1 THEN "url_1" ELSE "Not available everywhere",
     status |-> IF id = 1 THEN "Available" ELSE "Not Available",
     scraped |-> scraped]

SourceTables ==
    {[k \in 1..Len(flags) |-> SourceRow(k, flags[k])] :
       flags \in UNION {[1..n -> {0, 1}] : n \in 1..MaxSourceRows}}

\* The titles of a record whose first slot alone is filled.
FirstSlotOnly(title) == [i \in 1..NumSlots |-> IF i = 1 THEN title ELSE TitleEmpty]

\* Batches of one record, any of the titles in each slot.
OneRecordBatches ==
    {<<QueryRecord("id_1", input, titles)>> :
       input \in CosInputTitles, titles \in [1..NumSlots -> CosTitles]}

\* Batches of two records with a title in the first slot: a record scores
\* a title, has none to score, or has no term in either text.
TwoRecordBatches ==
    {<<QueryRecord("id_1", p[1], FirstSlotOnly(p[2])),
       QueryRecord("id_2", p[3], FirstSlotOnly(p[4]))>> :
       p \in {InputTeaBag, InputNoTerm} \X {TitleSame, TitleNoTerm, TitleEmpty}
              \X {InputTeaBag, InputNoTerm} \X {TitleSame, TitleNoTerm, TitleEmpty}}

\* Batches of one record some slots of which hold the scraper's placeholder.
PlaceholderBatches ==
    {<<QueryRecord("id_1", input, titles)>> :
       input \in {InputTeaBag, InputLikePlaceholder},
       titles \in [1..NumSlots -> {TitlePlaceholder, TitleBox}]}

\* Batches of the one record "Pepsi 330ML Can" with "Pepsi Cola 330 ml Can"
\* in slot 3 and titles that share no term with the input in the others.
PepsiBatches ==
    {<<QueryRecord("id_1", InputPepsi,
                   [i \in 1..NumSlots |-> IF i = 3 THEN TitlePepsiCola ELSE others[i]])>> :
       others \in [1..NumSlots -> {TitleUnrelated, TitleBox}]}

\* The batches of match queries.
CosBatches == OneRecordBatches \cup TwoRecordBatches \cup PlaceholderBatches \cup PepsiBatches

(***************************************************************************)
(* State                                                                   *)
(***************************************************************************)
VARIABLES
    u_name,      \* extract_units_per_carton: the argument
    u_pc,        \* "idle", "call" or "done"
    u_ret,       \* what the call returned
    w_name,      \* extract_weight_quantity: the argument
    w_pc,        \* "idle", "call" or "done"
    w_ret,       \* what the call returned
    files,       \* Merging_code.py: the file of each supplier of input_files
    m_pc,        \* "idle", "loop", "done" or "error" (an uncaught exception)
    m_i,         \* the position in input_files of the next supplier
    all_data,    \* the list all_data of frames df_clean
    df_columns,  \* the columns of df after standardize_columns returned
    final_df,    \* final_df
    output_csv,  \* the file output_file
    m_warned,    \* the suppliers reported as "File not found"
    m_raised,    \* the exception that ended the script, if any
    p_name,      \* detect_packaging_type: the argument
    p_pc,        \* "idle", "call" or "done"
    p_ret,       \* what the call returned
    s_text1,     \* compute_similarity: the arguments
    s_text2,
    s_pc,        \* "idle", "call" or "done"
    s_ret,       \* what the call returned, or that it raised
    data,        \* Cosine_Similarity_Code.py: the records of INPUT_JSON
    c_pc,        \* "idle", "loop", "done" or "error" (the except branch)
    c_idx,       \* the position in data of the next record
    output_data, \* the list output_data
    c_locals,    \* the local variables at the end of each iteration so far
    db_pending,  \* rows inserted and not committed
    db_rows,     \* the committed rows of url_similarity_results
    output_json, \* the file OUTPUT_JSON
    csv_file,         \* Amazon_url_scraping.py: the rows of CSV_FILE
    json_file,        \* JSON_FILE
    existing_json,    \* existing_json, loaded when the run starts
    results,          \* the dict results
    top_product_urls, \* the rows of the table top_product_urls
    log_file,         \* the lines of LOG_FILE
    a_pc,             \* "idle", "loop", "search" or "parse"
    a_row,            \* the position in df of the next row
    attempt,          \* the variable attempt of the retry loop
    a_run,            \* the number of runs started
    url_similarity,   \* AMAZON_DATA_SCRAPER_CURL.py: the table url_similarity
    d_rows,           \* rows, as fetch_all_rows returned them
    d_idx,            \* the position in rows of the next row
    d_pc,             \* "idle", "loop", "appended" or "inserted"
    row_out,          \* row_out of the row being written
    scraped_csv,      \* the rows of OUTPUT_CSV
    scraped_products, \* the rows of the table scraped_products
    d_run             \* the number of runs started

unitVars == <<u_name, u_pc, u_ret>>

weightVars == <<w_name, w_pc, w_ret>>

packVars == <<p_name, p_pc, p_ret>>

simVars == <<s_text1, s_text2, s_pc, s_ret>>

callVars == <<unitVars, weightVars, packVars, simVars>>

mergeVars ==
    <<files, m_pc, m_i, all_data, df_columns, final_df, output_csv, m_warned, m_raised>>

cosVars == <<data, c_pc, c_idx, output_data, c_locals, db_pending, db_rows, output_json>>

urlVars ==
    <<csv_file, json_file, existing_json, results, top_product_urls, log_file,
      a_pc, a_row, attempt, a_run>>

dataVars ==
    <<url_similarity, d_rows, d_idx, d_pc, row_out, scraped_csv, scraped_products, d_run>>

scrapeVars == <<urlVars, dataVars>>

vars == <<callVars, mergeVars, cosVars, scrapeVars>>

UnitIdle == u_name = <<>> /\ u_pc = "idle" /\ u_ret = [by |-> 0, value |-> PyNone]

WeightIdle == w_name = <<>> /\ w_pc = "idle" /\ w_ret = None

PackIdle == p_name = <<>> /\ p_pc = "idle" /\ p_ret = "NON-CTN"

SimIdle ==
    /\ s_text1 = <<>> /\ s_text2 = <<>> /\ s_pc = "idle"
    /\ s_ret = [raised |-> FALSE, micro |-> 0]

\* No exception, and the exceptions of the script.
NoException == [raised |-> FALSE]

ValueError(message) == [raised |-> TRUE, type |-> "ValueError", message |-> message]

MergeIdle ==
    /\ files = <<>> /\ m_pc = "idle" /\ m_i = 1 /\ all_data = <<>> /\ df_columns = <<>>
    /\ final_df = <<>> /\ output_csv = NoFile
    /\ m_warned = <<>> /\ m_raised = NoException

CosIdle ==
    /\ data = <<>> /\ c_pc = "idle" /\ c_idx = 1 /\ output_data = <<>>
    /\ c_locals = <<>> /\ db_pending = <<>> /\ db_rows = <<>> /\ output_json = NoFile

UrlIdle ==
    /\ csv_file = <<>> /\ json_file = NoFile /\ existing_json = EmptyDict
    /\ results = EmptyDict /\ top_product_urls = <<>> /\ log_file = <<>>
    /\ a_pc = "off" /\ a_row = 1 /\ attempt = 0 /\ a_run = 0

DataIdle ==
    /\ url_similarity = <<>> /\ d_rows = <<>> /\ d_idx = 1 /\ d_pc = "off"
    /\ row_out = <<>> /\ scraped_csv = <<>> /\ scraped_products = <<>> /\ d_run = 0

ScrapersIdle == UrlIdle /\ DataIdle

(***************************************************************************)
(* extract_units_per_carton and extract_weight_quantity, called on a name  *)
(***************************************************************************)
UnitInit ==
    /\ u_name \in UnitNames /\ u_pc = "call" /\ u_ret = [by |-> 0, value |-> PyNone]
    /\ WeightIdle /\ PackIdle /\ SimIdle /\ MergeIdle /\ CosIdle /\ ScrapersIdle

UnitCall ==
    /\ u_pc = "call"
    /\ u_ret' = extract_units_per_carton(u_name)
    /\ u_pc' = "done"
    /\ UNCHANGED <<u_name, weightVars, packVars, simVars, mergeVars, cosVars, scrapeVars>>

UnitNext == UnitCall

SpecUnits == UnitInit /\ [][UnitNext]_vars

WeightInit ==
    /\ w_name \in WeightNames /\ w_pc = "call" /\ w_ret = None
    /\ UnitIdle /\ PackIdle /\ SimIdle /\ MergeIdle /\ CosIdle /\ ScrapersIdle

WeightCall ==
    /\ w_pc = "call"
    /\ w_ret' \in extract_weight_quantity(w_name)
    /\ w_pc' = "done"
    /\ UNCHANGED <<w_name, unitVars, packVars, simVars, mergeVars, cosVars, scrapeVars>>

WeightNext == WeightCall

SpecWeight == WeightInit /\ [][WeightNext]_vars

PackInit ==
    /\ p_name \in PackNames /\ p_pc = "call" /\ p_ret = "NON-CTN"
    /\ UnitIdle /\ WeightIdle /\ SimIdle /\ MergeIdle /\ CosIdle /\ ScrapersIdle

PackCall ==
    /\ p_pc = "call"
    /\ p_ret' = detect_packaging_type(p_name)
    /\ p_pc' = "done"
    /\ UNCHANGED <<p_name, unitVars, weightVars, simVars, mergeVars, cosVars, scrapeVars>>

SimInit ==
    /\ s_text1 \in SimTexts /\ s_text2 \in SimTexts /\ s_pc = "call"
    /\ s_ret = [raised |-> FALSE, micro |-> 0]
    /\ UnitIdle /\ WeightIdle /\ PackIdle /\ MergeIdle /\ CosIdle /\ ScrapersIdle

SimCall ==
    /\ s_pc = "call"
    /\ s_ret' = compute_similarity(s_text1, s_text2)
    /\ s_pc' = "done"
    /\ UNCHANGED <<s_text1, s_text2, unitVars, weightVars, packVars, mergeVars, cosVars,
                   scrapeVars>>

SimNext == SimCall

SpecSim == SimInit /\ [][SimNext]_vars

(***************************************************************************)
(* Merging_code.py: the ETL pipeline                                       *)
(***************************************************************************)
MergeInit ==
    /\ files \in FileAssignments(Len(input_files), MaxRows) \cup HeaderAssignments
                 \cup UnitAssignments
    /\ m_pc = "loop" /\ m_i = 1 /\ all_data = <<>> /\ df_columns = <<>>
    /\ final_df = <<>> /\ output_csv = NoFile
    /\ m_warned = <<>> /\ m_raised = NoException
    /\ UnitIdle /\ WeightIdle /\ PackIdle /\ SimIdle /\ CosIdle /\ ScrapersIdle

\* The message of the ValueError of standardize_columns, as the pieces of
\* its f-string; the first is the cross mark U+274C.
MissingColumnMessage(supplier_name) ==
    <<"CROSS MARK", " Product name column missing in ", supplier_name, " file">>

\* A variant of SourceException without the check of standardize_columns.
SourceExceptionNameOptional(columns, supplier) ==
    IF Cardinality(ColumnsNamed(RenamedColumns(columns), "Product_Name")) > 1
    THEN ValueError(<<"The truth value of a Series is ambiguous">>)
    ELSE NoException

\* The exception of an iteration on a file that exists, if it raises one.
\* standardize_columns raises when no column is a product name; two columns
\* renamed to Product_Name make df['Product_Name'] a frame, on whose columns
\* "if pd.isna(name)" raises. Nothing catches either.
SourceException(columns, supplier) ==
    IF StandardizeRaises(columns)
    THEN ValueError(MissingColumnMessage(supplier))
    ELSE IF Cardinality(ColumnsNamed(RenamedColumns(columns), "Product_Name")) > 1
    THEN ValueError(<<"The truth value of a Series is ambiguous">>)
    ELSE NoException

\* One iteration of "for supplier, file_path in input_files.items()". A
\* missing file is reported and skipped. An exception ends the script.
ProcessSource ==
    /\ m_pc = "loop" /\ m_i <= Len(input_files)
    /\ IF ~files[m_i].exists
       THEN /\ m_warned' = Append(m_warned, input_files[m_i])
            /\ m_i' = m_i + 1
            /\ UNCHANGED <<m_pc, all_data, df_columns, m_raised>>
       ELSE IF SourceException(files[m_i].columns, input_files[m_i]).raised
       THEN /\ m_pc' = "error"
            /\ m_raised' = SourceException(files[m_i].columns, input_files[m_i])
            /\ df_columns' = IF StandardizeRaises(files[m_i].columns)
                             THEN df_columns
                             ELSE standardize_columns(files[m_i].columns)
            /\ UNCHANGED <<m_i, all_data, m_warned>>
       ELSE /\ \E df_clean \in CleanRows(RenamedColumns(files[m_i].columns),
                                        files[m_i].rows, input_files[m_i]) :
                 all_data' = Append(all_data, df_clean)
            /\ df_columns' = standardize_columns(files[m_i].columns)
            /\ m_i' = m_i + 1
            /\ UNCHANGED <<m_pc, m_warned, m_raised>>
    /\ UNCHANGED <<files, final_df, output_csv, callVars, cosVars, scrapeVars>>

\* After the loop: pd.concat (which raises ValueError on an empty list),
\* drop_duplicates, reset_index, the Product_ID column, to_csv.
Consolidate ==
    /\ m_pc = "loop" /\ m_i > Len(input_files)
    /\ IF all_data = <<>>
       THEN /\ m_pc' = "error"
            /\ m_raised' = ValueError(<<"No objects to concatenate">>)
            /\ UNCHANGED <<final_df, output_csv>>
       ELSE /\ final_df' = WithProductIds(drop_duplicates(Concat(all_data)))
            /\ output_csv' = FileOf(final_df')
            /\ m_pc' = "done"
            /\ UNCHANGED m_raised
    /\ UNCHANGED <<files, m_i, all_data, df_columns, m_warned, callVars, cosVars,
                   scrapeVars>>

MergeNext == ProcessSource \/ Consolidate

SpecMerge == MergeInit /\ [][MergeNext]_vars

\* detect_packaging_type called on a name, or the pipeline run.
PackagingInit == PackInit \/ MergeInit

PackagingNext == PackCall \/ ProcessSource \/ Consolidate

SpecPackaging == PackagingInit /\ [][PackagingNext]_vars

(***************************************************************************)
(* Cosine_Similarity_Code.py: main()                                       *)
(***************************************************************************)
CosInit ==
    /\ data \in CosBatches
    /\ c_pc = "loop" /\ c_idx = 1 /\ output_data = <<>> /\ c_locals = <<>>
    /\ db_pending = <<>> /\ db_rows = <<>> /\ output_json = NoFile
    /\ UnitIdle /\ WeightIdle /\ PackIdle /\ SimIdle /\ MergeIdle /\ ScrapersIdle

\* The rest of an iteration once the slot loop ended with the locals loc.
\* An exception of compute_similarity leaves the loop for the except branch
\* of main(): nothing is committed and OUTPUT_JSON is not written.
RecordResult(record, loc) ==
    IF loc.raised
    THEN /\ c_pc' = "error"
         /\ db_pending' = <<>>
         /\ UNCHANGED <<c_idx, output_data, c_locals>>
    ELSE /\ db_pending' = Append(db_pending, DbRow(record, loc))
         /\ output_data' = Append(output_data, OutputRecord(record, loc))
         /\ c_locals' = Append(c_locals, loc)
         /\ c_idx' = c_idx + 1
         /\ UNCHANGED c_pc

\* One iteration of "for record in data".
ProcessRecord ==
    /\ c_pc = "loop" /\ c_idx <= Len(data)
    /\ RecordResult(data[c_idx], ScoreSlots(data[c_idx], 1, InitialLocals))
    /\ UNCHANGED <<data, db_rows, output_json, callVars, mergeVars, scrapeVars>>

\* After the loop: conn.commit(), then json.dump(output_data).
FinishBatch ==
    /\ c_pc = "loop" /\ c_idx > Len(data)
    /\ db_rows' = db_rows \o db_pending
    /\ db_pending' = <<>>
    /\ output_json' = FileOf(output_data)
    /\ c_pc' = "done"
    /\ UNCHANGED <<data, c_idx, output_data, c_locals, callVars, mergeVars, scrapeVars>>

CosNext == ProcessRecord \/ FinishBatch

SpecCos == CosInit /\ [][CosNext]_vars

(***************************************************************************)
(* Amazon_url_scraping.py: the scraper                                     *)
(***************************************************************************)
UrlInit ==
    /\ csv_file \in CsvFiles
    /\ json_file = NoFile /\ existing_json = EmptyDict /\ results = EmptyDict
    /\ top_product_urls = <<>> /\ log_file = <<>>
    /\ a_pc = "idle" /\ a_row = 1 /\ attempt = 0 /\ a_run = 0
    /\ UnitIdle /\ WeightIdle /\ PackIdle /\ SimIdle /\ MergeIdle /\ CosIdle /\ DataIdle

\* The script starts: the log line, existing_json = load_json(), results = {}.
StartRun ==
    /\ a_pc = "idle" /\ a_run < MaxRuns
    /\ a_run' = a_run + 1
    /\ log_file' = Append(log_file, LogLine("started", "", 0))
    /\ existing_json' = load_json(json_file)
    /\ results' = EmptyDict
    /\ a_row' = 1 /\ attempt' = 0 /\ a_pc' = "loop"
    /\ UNCHANGED <<csv_file, json_file, top_product_urls,
                   callVars, mergeVars, cosVars, dataVars>>

\* The head of an iteration of "for _, row in df.iterrows()": a serial
\* number in existing_json is skipped, any other begins the retry loop.
NextRow ==
    /\ a_pc = "loop" /\ a_row <= Len(csv_file)
    /\ IF csv_file[a_row].sl_no \in DOMAIN existing_json
       THEN /\ log_file' = Append(log_file, LogLine("skipping", csv_file[a_row].sl_no, 0))
            /\ a_row' = a_row + 1
            /\ UNCHANGED <<a_pc, attempt>>
       ELSE /\ log_file' = Append(log_file, LogLine("searching", csv_file[a_row].sl_no, 0))
            /\ a_pc' = "search" /\ attempt' = 0
            /\ UNCHANGED a_row
    /\ UNCHANGED <<csv_file, json_file, existing_json, results, top_product_urls, a_run,
                   callVars, mergeVars, cosVars, dataVars>>

\* The except branch of an item: the minimal record is stored and saved,
\* and the loop goes on with the next row.
RecordFailure(lines) ==
    /\ log_file' = log_file \o lines
                     \o <<LogLine("error", csv_file[a_row].sl_no, 0)>>
    /\ results' = DictPut(results, csv_file[a_row].sl_no,
                          MinimalRecord(csv_file[a_row].sl_no, csv_file[a_row].item_name))
    /\ json_file' = save_json(json_file,
                         DictOf(csv_file[a_row].sl_no,
                                MinimalRecord(csv_file[a_row].sl_no,
                                              csv_file[a_row].item_name)))
    /\ a_row' = a_row + 1 /\ a_pc' = "loop"
    /\ UNCHANGED <<attempt, top_product_urls>>

\* One pass of "for attempt in range(3)": the search succeeds and the loop
\* is left, or it fails: the failure is logged, and the last attempt
\* re-raises it to the except branch of the item.
SearchAttempt ==
    /\ a_pc = "search"
    /\ \E ok \in BOOLEAN :
          IF ok
          THEN /\ a_pc' = "parse"
               /\ UNCHANGED <<log_file, results, json_file, a_row, attempt,
                              top_product_urls>>
          ELSE IF IsLastAttempt(attempt)
          THEN RecordFailure(<<LogLine("attempt failed", csv_file[a_row].sl_no,
                                       attempt + 1)>>)
          ELSE /\ log_file' = Append(log_file, LogLine("attempt failed",
                                                      csv_file[a_row].sl_no, attempt + 1))
               /\ IF attempt + 1 < MaxAttempts
                  THEN attempt' = attempt + 1 /\ UNCHANGED a_pc
                  ELSE a_pc' = "parse" /\ UNCHANGED attempt
               /\ UNCHANGED <<results, json_file, a_row, top_product_urls>>
    /\ UNCHANGED <<csv_file, existing_json, a_run, callVars, mergeVars, cosVars, dataVars>>

\* The rest of the try block: the page is parsed, the five slots are
\* filled, the record is saved and the row inserted; or an exception (of
\* page.content() or of the INSERT) takes the except branch.
ScrapeResults ==
    /\ a_pc = "parse"
    /\ \/ \E product_links \in ResultPages :
             /\ results' = DictPut(results, csv_file[a_row].sl_no,
                     ResultRecord(csv_file[a_row].sl_no, csv_file[a_row].item_name,
                                  FillMissing(TopEntries(product_links))))
             /\ json_file' = save_json(json_file,
                     DictOf(csv_file[a_row].sl_no,
                            ResultRecord(csv_file[a_row].sl_no, csv_file[a_row].item_name,
                                         FillMissing(TopEntries(product_links)))))
             /\ top_product_urls' = Append(top_product_urls,
                     ResultRecord(csv_file[a_row].sl_no, csv_file[a_row].item_name,
                                  FillMissing(TopEntries(product_links))))
             /\ log_file' = Append(log_file, LogLine("scraped", csv_file[a_row].sl_no, 0))
             /\ a_row' = a_row + 1 /\ a_pc' = "loop"
             /\ UNCHANGED attempt
       \/ RecordFailure(<<>>)
    /\ UNCHANGED <<csv_file, existing_json, a_run, callVars, mergeVars, cosVars, dataVars>>

\* After the last row: browser.close() and the script ends.
FinishRun ==
    /\ a_pc = "loop" /\ a_row > Len(csv_file)
    /\ a_pc' = "idle"
    /\ UNCHANGED <<csv_file, json_file, existing_json, results, top_product_urls,
                   log_file, a_row, attempt, a_run, callVars, mergeVars, cosVars, dataVars>>

UrlNext == StartRun \/ NextRow \/ SearchAttempt \/ ScrapeResults \/ FinishRun

SpecUrl == UrlInit /\ [][UrlNext]_vars

\* A step of the script is taken when one is possible: it waits for the
\* browser with timeouts only.
SpecUrlLive == SpecUrl /\ WF_vars(NextRow \/ SearchAttempt \/ ScrapeResults \/ FinishRun)

(***************************************************************************)
(* AMAZON_DATA_SCRAPER_CURL.py: main()                                     *)
(***************************************************************************)
DataInit ==
    /\ url_similarity \in SourceTables
    /\ d_rows = <<>> /\ d_idx = 1 /\ d_pc = "idle" /\ row_out = <<>>
    /\ scraped_csv = <<>> /\ scraped_products = <<>> /\ d_run = 0
    /\ UnitIdle /\ WeightIdle /\ PackIdle /\ SimIdle /\ MergeIdle /\ CosIdle /\ UrlIdle

\* main() starts: rows = fetch_all_rows(conn).
DataStart ==
    /\ d_pc = "idle" /\ d_run < MaxRuns
    /\ d_run' = d_run + 1
    /\ d_rows' = fetch_all_rows(url_similarity)
    /\ d_idx' = 1 /\ d_pc' = "loop"
    /\ UNCHANGED <<url_similarity, row_out, scraped_csv, scraped_products,
                   callVars, mergeVars, cosVars, urlVars>>

\* The row is built in one of the four branches, and append_to_csv(row_out).
AppendCsv ==
    /\ d_pc = "loop" /\ d_idx <= Len(d_rows)
    /\ \E outcome \in IF UrlMissing(d_rows[d_idx])
                       THEN {"not available"}
                       ELSE {"failed", "blocked", "scraped"} :
           row_out' = RowOut(d_rows[d_idx], outcome)
    /\ scraped_csv' = Append(scraped_csv, row_out')
    /\ d_pc' = "appended"
    /\ UNCHANGED <<url_similarity, d_rows, d_idx, scraped_products, d_run,
                   callVars, mergeVars, cosVars, urlVars>>

\* insert_output_table(conn, row_out)
InsertOutput ==
    /\ d_pc = "appended"
    /\ scraped_products' = Append(scraped_products, row_out)
    /\ d_pc' = "inserted"
    /\ UNCHANGED <<url_similarity, d_rows, d_idx, row_out, scraped_csv, d_run,
                   callVars, mergeVars, cosVars, urlVars>>

\* mark_scraped(conn, scrape_id), and the loop goes to the next row.
MarkScraped ==
    /\ d_pc = "inserted"
    /\ url_similarity' = mark_scraped(url_similarity, d_rows[d_idx].id)
    /\ d_idx' = d_idx + 1 /\ d_pc' = "loop"
    /\ UNCHANGED <<d_rows, row_out, scraped_csv, scraped_products, d_run,
                   callVars, mergeVars, cosVars, urlVars>>

\* After the last row (or with no row to scrape) main() returns.
DataFinish ==
    /\ d_pc = "loop" /\ d_idx > Len(d_rows)
    /\ d_pc' = "idle"
    /\ UNCHANGED <<url_similarity, d_rows, d_idx, row_out, scraped_csv,
                   scraped_products, d_run, callVars, mergeVars, cosVars, urlVars>>

\* The run is interrupted (the process is killed) between two statements:
\* the files and the committed tables stay as they are.
Interrupt ==
    /\ d_pc \in {"loop", "appended", "inserted"}
    /\ d_pc' = "idle"
    /\ UNCHANGED <<url_similarity, d_rows, d_idx, row_out, scraped_csv,
                   scraped_products, d_run, callVars, mergeVars, cosVars, urlVars>>

DataNext ==
    DataStart \/ AppendCsv \/ InsertOutput \/ MarkScraped \/ DataFinish \/ Interrupt

SpecData == DataInit /\ [][DataNext]_vars

(***************************************************************************)
(* Properties of extract_units_per_carton (SpecUnits)                      *)
(***************************************************************************)
\* Whether recognizer k of the cascade (1 pack count, 2 parenthesised
\* multiplier, 3 count times quantity and unit, 4 chained X product, 5 single
\* X, 6 count-X-unit, 7 bags, 8 plus, 9 fallback) matches the text.
RecognizerMatches(k, text) ==
    CASE k = 1 -> ReSearch(PcsRe, text).found
      [] k = 2 -> ReSearch(BracketRe, text).found
      [] k = 3 -> ReSearch(BeforeUnitRe, text).found
      [] k = 4 -> Len(ReFindAll(XNumbersRe, text)) >= 2
      [] k = 5 -> Len(ReFindAll(XNumbersRe, text)) = 1
      [] k = 6 -> ReSearch(SingleXRe, text).found
      [] k = 7 -> ReSearch(BagRe, text).found
      [] k = 8 -> ReSearch(PlusRe, text).found
      [] k = 9 -> ReSearch(StarAfterRe, text).found

\* Group 1 of the first match of a pattern, as a number.
FirstCount(r, text) == DigitsToInt(ReSearch(r, text).groups[1])

\* The value of recognizer k on a text it matches.
RecognizerValue(k, text) ==
    CASE k = 1 -> FirstCount(PcsRe, text)
      [] k = 2 -> FirstCount(BracketRe, text)
      [] k = 3 -> FirstCount(BeforeUnitRe, text)
      [] k = 4 -> NpProd([i \in 1..Len(ReFindAll(XNumbersRe, text)) |->
                            DigitsToInt(ReFindAll(XNumbersRe, text)[i])])
      [] k = 5 -> DigitsToInt(ReFindAll(XNumbersRe, text)[1])
      [] k = 6 -> FirstCount(SingleXRe, text)
      [] k = 7 -> FirstCount(BagRe, text)
      [] k = 8 -> FirstCount(PlusRe, text)
                  + DigitsToInt(ReSearch(PlusRe, text).groups[2])
      [] k = 9 -> FirstCount(StarAfterRe, text)

\* The recognizers that match the text.
Recognizers(text) == {k \in 1..9 : RecognizerMatches(k, text)}

\* The first of a non-empty set of recognizers.
FirstOf(ks) == CHOOSE k \in ks : \A j \in ks : k <= j

\* C6: extract_units_per_carton("4 X 18 X 56G") returns 72, the product of
\* the chained counts 4 and 18.
C6_ChainedProduct ==
    (u_pc = "done" /\ u_name = Name4X18X56G) => u_ret.value = PyInt(72)

\* C7: "96PCS" gives 96, "(1.5 ML*12)" gives 12, "36+6" gives 42 and "plain
\* text no numbers" gives null; in general the result is the count before a
\* PCS/PC/PS token, the trailing count of a parenthesised multiplication when
\* no pack count is present, the sum of two numbers joined by "+" when no
\* earlier recognizer matches, and null when no recognizer matches.
C7_RecognizerValues ==
    (u_pc = "done" /\ ~IsNa(u_name)) =>
        LET text == UnitsText(u_name)
            ks == Recognizers(text)
        IN  /\ u_name = Name96PCS => u_ret.value = PyInt(96)
            /\ u_name = NameBracket => u_ret.value = PyInt(12)
            /\ u_name = Name36Plus6 => u_ret.value = PyInt(42)
            /\ u_name = NamePlainText => u_ret.value = PyNone
            /\ 1 \in ks => u_ret.value = PyInt(FirstCount(PcsRe, text))
            /\ (2 \in ks /\ 1 \notin ks) => u_ret.value = PyInt(FirstCount(BracketRe, text))
            /\ (8 \in ks /\ ks \cap (1..7) = {}) =>
                   u_ret.value = PyInt(RecognizerValue(8, text))
            /\ ks = {} => u_ret.value = PyNone

\* "36+6" was given and 42 returned.
C7_Witness ==
    /\ u_pc = "done" /\ u_name = Name36Plus6 /\ u_ret.value = PyInt(42)
    /\ Recognizers(UnitsText(u_name)) = {8}

\* C8: the result is the value of the first recognizer, in the fixed order
\* 1..9, that matches the name, wherever in the name the patterns occur; it
\* is null when none matches.
C8_FirstRecognizerWins ==
    (u_pc = "done" /\ ~IsNa(u_name)) =>
        LET text == UnitsText(u_name)
            ks == Recognizers(text)
        IN  IF ks = {}
            THEN u_ret.value = PyNone
            ELSE u_ret.value = PyInt(RecognizerValue(FirstOf(ks), text))

\* "X4 18PCS": the fallback pattern matches at the start of the name (value 4)
\* and the pack count after it (value 18); the pack count is returned.
C8_Witness ==
    /\ u_pc = "done" /\ u_name = NameX4Then18PCS
    /\ {1, 9} \subseteq Recognizers(UnitsText(u_name))
    /\ ReSearch(StarAfterRe, UnitsText(u_name)).start
         < ReSearch(PcsRe, UnitsText(u_name)).start
    /\ RecognizerValue(9, UnitsText(u_name)) = 4
    /\ u_ret.value = PyInt(18)

\* C9: the result is null or an integer >= 1, never 0 or a negative number.
C9_NullOrPositive ==
    u_pc = "done" => (u_ret.value.none \/ u_ret.value.int >= 1)

(***************************************************************************)
(* Properties of extract_weight_quantity (SpecWeight)                      *)
(***************************************************************************)
\* The conversion table: 1000 for KG, KGS, L, LTR and LITRE, 1 for every
\* other token.
TableFactor(u) == IF u \in {KG, KGS, L, LTR, LITRE} THEN 1000 ELSE 1

\* Whether g is num * factor / den rounded to a nearest integer.
IsRounded(g, num, den, factor) ==
    /\ 2 * (g * den - num * factor) <= den
    /\ 2 * (num * factor - g * den) <= den

C10_WitnessOutsideTable ==
    /\ w_pc = "done" /\ w_name = <<"5", "L", "T">> /\ w_ret = <<"5", "G">>

\* C11: a gram value exactly half way between two integers is rounded away
\* from zero ("2.5G" gives "3G" and "0.5G" gives "1G"); every other value is
\* rounded to the nearest integer.
C11_TiesRoundAwayFromZero ==
    (w_pc = "done" /\ ~IsNa(w_name)) =>
        LET match == ReSearch(weight_re, WeightText(w_name))
            n == ParseFloat(match.groups[1])
            f == GramFactor(match.groups[2])
            q == (n.num * f) \div n.den
            r == (n.num * f) % n.den
        IN  /\ w_name = <<"2", ".", "5", "G">> => w_ret = <<"3", "G">>
            /\ w_name = <<"0", ".", "5", "G">> => w_ret = <<"1", "G">>
            /\ match.found =>
                   w_ret = IntToDigits(IF 2 * r >= n.den THEN q + 1 ELSE q) \o <<"G">>

(***************************************************************************)
(* Properties of the consolidation of Merging_code.py (SpecMerge)          *)
(***************************************************************************)
\* An entry of the catalog without its Product_ID: a row of the concatenation.
CatalogRow(e) ==
    [Product_Name |-> e.Product_Name, Serial_Number |-> e.Serial_Number,
     Supplier |-> e.Supplier, Weight_Quantity |-> e.Weight_Quantity,
     Packaging_Type |-> e.Packaging_Type, Units_Per_Carton |-> e.Units_Per_Carton]

\* Whether row k of rows is the first with its (Product_Name, Supplier) pair.
IsFirstOccurrence(rows, k) ==
    \A j \in 1..(k - 1) : DupKey(rows[j]) # DupKey(rows[k])

\* C1: after consolidation no two entries of the catalog have the same
\* (Product_Name, Supplier) pair; the entries are the first occurrences of
\* the pairs of the concatenated batches, each with its own fields, and
\* every later occurrence is dropped; records with the same name and
\* different suppliers are all kept.
C1_UniquePairsKeepFirst ==
    m_pc = "done" =>
        LET cat == Concat(all_data)
            firsts == {k \in 1..Len(cat) : IsFirstOccurrence(cat, k)}
        IN  /\ \A i, j \in 1..Len(final_df) :
                   i # j => DupKey(final_df[i]) # DupKey(final_df[j])
            /\ Len(final_df) = Cardinality(firsts)
            /\ \A k \in firsts :
                   \E i \in 1..Len(final_df) : CatalogRow(final_df[i]) = cat[k]
            /\ \A k \in 1..Len(cat) :
                   \E i \in 1..Len(final_df) :
                       /\ final_df[i].Product_Name = cat[k].Product_Name
                       /\ final_df[i].Supplier = cat[k].Supplier
            /\ output_csv = FileOf(final_df)

\* A run in which a pair occurred twice with different serial numbers and the
\* same name also came from a second supplier: the first occurrence was kept,
\* the later one dropped, and both suppliers' entries are in the catalog.
C1_Witness ==
    /\ m_pc = "done"
    /\ \E j, k \in 1..Len(Concat(all_data)) :
           /\ j < k
           /\ DupKey(Concat(all_data)[j]) = DupKey(Concat(all_data)[k])
           /\ Concat(all_data)[j].Serial_Number # Concat(all_data)[k].Serial_Number
           /\ IsFirstOccurrence(Concat(all_data), j)
           /\ \E i \in 1..Len(final_df) : CatalogRow(final_df[i]) = Concat(all_data)[j]
           /\ \A i \in 1..Len(final_df) : CatalogRow(final_df[i]) # Concat(all_data)[k]
    /\ \E i, j \in 1..Len(final_df) :
           /\ final_df[i].Product_Name = final_df[j].Product_Name
           /\ final_df[i].Supplier # final_df[j].Supplier

\* C2: the entry at row position i (from 1) of a catalog of n entries has
\* the Product_ID product_i, so the identifiers are product_1 .. product_n
\* with no gap and none repeated.
C2_DenseProductIds ==
    m_pc = "done" =>
        /\ \A i \in 1..Len(final_df) :
               final_df[i].Product_ID =
                   <<"p", "r", "o", "d", "u", "c", "t", "_">> \o IntToDigits(i)
        /\ \A i, j \in 1..Len(final_df) :
               i # j => final_df[i].Product_ID # final_df[j].Product_ID

\* A catalog of two or more entries, made after a duplicate was dropped.
C2_Witness ==
    /\ m_pc = "done"
    /\ Len(final_df) >= 2
    /\ Len(Concat(all_data)) > Len(final_df)
    /\ final_df[Len(final_df)].Product_ID =
           <<"p", "r", "o", "d", "u", "c", "t", "_">> \o IntToDigits(Len(final_df))

\* The positions <<frame, row>> of the rows of the batches.
BatchPositions ==
    UNION {{<<f, k>> : k \in 1..Len(all_data[f])} : f \in 1..Len(all_data)}

\* Whether position p comes before position q: frames in the order of the
\* sources, rows in the order of their file.
ComesBefore(p, q) == p[1] < q[1] \/ (p[1] = q[1] /\ p[2] < q[2])

\* The first position of a row with the pair of catalog entry e.
FirstPosition(e) ==
    CHOOSE p \in BatchPositions :
        /\ all_data[p[1]][p[2]].Product_Name = e.Product_Name
        /\ all_data[p[1]][p[2]].Supplier = e.Supplier
        /\ \A q \in BatchPositions :
               (/\ all_data[q[1]][q[2]].Product_Name = e.Product_Name
                /\ all_data[q[1]][q[2]].Supplier = e.Supplier) => (q = p \/ ComesBefore(p, q))

\* The number n of a Product_ID product_n.
ProductNumber(e) == DigitsToInt(SubSeq(e.Product_ID, 9, Len(e.Product_ID)))

\* C22: the catalog lists its entries in the order of their first
\* occurrence in the batches (sources in iteration order, rows in file
\* order): of two entries the one that first occurs earlier stands earlier
\* and has the smaller Product_ID number.
C22_OrderOfFirstOccurrence ==
    m_pc = "done" =>
        \A i, j \in 1..Len(final_df) :
            ComesBefore(FirstPosition(final_df[i]), FirstPosition(final_df[j])) =>
                /\ i < j
                /\ ProductNumber(final_df[i]) < ProductNumber(final_df[j])

\* A catalog of entries of two sources, made after a duplicate was dropped
\* between two rows that were kept.
C22_Witness ==
    /\ m_pc = "done"
    /\ Len(all_data) >= 2
    /\ \E i, j \in 1..Len(final_df) :
           /\ FirstPosition(final_df[i])[1] = 1 /\ FirstPosition(final_df[j])[1] = 2
           /\ ProductNumber(final_df[i]) < ProductNumber(final_df[j])
    /\ Cardinality(BatchPositions) > Len(final_df)

\* C28: the frame standardize_columns returns has exactly one column named
\* Product_Name and at most one named Serial_Number, whatever the columns of
\* the source, two aliases of one canonical name included.
C28_OneProductNameColumn ==
    df_columns # <<>> =>
        /\ Cardinality({c \in 1..Len(df_columns) : df_columns[c] = "Product_Name"}) = 1
        /\ Cardinality({c \in 1..Len(df_columns) : df_columns[c] = "Serial_Number"}) <= 1

\* Whether source i is a file none of whose columns is renamed Product_Name.
LacksProductName(i) ==
    /\ files[i].exists
    /\ \A c \in 1..Len(files[i].columns) : col_map(files[i].columns[c]) # "Product_Name"

\* C15: when a source has no Product_Name column after renaming, the run
\* stops at that source with an error whose message names it, no row of
\* that source is in a frame or in the catalog, and no catalog is written.
C15_MissingProductNameRaises ==
    \A i \in 1..Len(input_files) :
        LacksProductName(i) =>
            /\ m_i <= i
            /\ (m_i = i /\ m_pc # "loop") =>
                   /\ m_pc = "error"
                   /\ m_raised.raised
                   /\ \E p \in 1..Len(m_raised.message) :
                          m_raised.message[p] = input_files[i]
            /\ \A f \in 1..Len(all_data) : \A r \in 1..Len(all_data[f]) :
                   all_data[f][r].Supplier # input_files[i]
            /\ final_df = <<>> /\ ~output_csv.written

\* The run stopped at the second source, after a frame of the first.
C15_Witness ==
    /\ LacksProductName(2)
    /\ m_pc = "error" /\ m_i = 2 /\ Len(all_data) = 1
    /\ m_raised.message =
           <<"CROSS MARK", " Product name column missing in ", "Future", " file">>

\* C16: whichever sources are missing, all of them included, a run whose
\* files that exist are well-formed raises no error: each missing source
\* passed is reported, and the run that ends has written the catalog.
C16_MissingSourcesAreSkipped ==
    (\A i \in 1..Len(input_files) :
        files[i].exists => ~SourceException(files[i].columns, input_files[i]).raised) =>
        /\ m_pc # "error" /\ ~m_raised.raised
        /\ \A i \in 1..(m_i - 1) :
               ~files[i].exists => \E w \in 1..Len(m_warned) : m_warned[w] = input_files[i]
        /\ m_pc = "done" => output_csv.written

\* The suppliers with a row in some frame of all_data.
FrameSuppliers ==
    {all_data[p[1]][p[2]].Supplier : p \in BatchPositions}

\* C27: once the loop has come to a source without a product name column,
\* the run has stopped there with the error: the sources before it that
\* exist each have their frame, no later source has a frame or a warning,
\* and no catalog is made or written.
C27_MissingNameStopsRun ==
    \A i \in 1..Len(input_files) :
        (LacksProductName(i) /\ (m_i > i \/ (m_i = i /\ m_pc # "loop"))) =>
            /\ m_i = i /\ m_pc = "error"
            /\ Len(all_data) = Cardinality({j \in 1..(i - 1) : files[j].exists})
            /\ \A j \in (i + 1)..Len(input_files) :
                   /\ input_files[j] \notin FrameSuppliers
                   /\ \A w \in 1..Len(m_warned) : m_warned[w] # input_files[j]
            /\ final_df = <<>> /\ ~output_csv.written

\* The run stopped at the second source: the first has its frame, the third
\* is a well-formed file that was not read, the fourth is missing and was
\* not reported.
C27_Witness ==
    /\ LacksProductName(2) /\ m_pc = "error" /\ m_i = 2
    /\ FrameSuppliers = {"Amal Trading"}
    /\ files[3].exists /\ ~LacksProductName(3) /\ ~files[4].exists
    /\ m_warned = <<>> /\ ~output_csv.written

(***************************************************************************)
(* Properties of the match resolver of Cosine_Similarity_Code.py (SpecCos) *)
(***************************************************************************)
\* The slots of a record that are scored: those with a non-empty title.
ScoredSlots(record) == {i \in 1..NumSlots : record.url_title[i] # TitleEmpty}

\* The similarity, not rounded, of the title of slot i to the input title.
SlotScore(record, i) ==
    Similarity(Lower(Strip(record.input_title)), Lower(record.url_title[i])).micro

\* The largest of a non-empty set of numbers.
MaxOf(ns) == CHOOSE m \in ns : \A n \in ns : n <= m

\* The maximum similarity of a record, not rounded; 0 when no slot is scored.
MaxScore(record) ==
    MaxOf({0} \cup {SlotScore(record, i) : i \in ScoredSlots(record)})

\* The first slot that reaches the maximum similarity of a record.
FirstMaxSlot(record) ==
    FirstOf({i \in ScoredSlots(record) : SlotScore(record, i) = MaxScore(record)})

\* The stored score url_i_similarity of an output record, in thousandths.
StoredScore(rec, i) == (CHOOSE p \in rec.similarities : p[1] = i)[2]

\* The slots that hold a stored score.
StoredSlots(rec) == {p[1] : p \in rec.similarities}

\* C3: every record written has the status "Available" if and only if its
\* recorded best_similarity is >= 0.6.
C3_StatusIffRecordedBest ==
    output_json.written =>
        \A k \in 1..Len(output_json.content) :
            output_json.content[k].status = "Available"
                <=> output_json.content[k].best_similarity >= 600

\* C4 as stated: the winning slot of a record, when a slot has won, is the
\* lowest-indexed slot among those whose stored 3-decimal score equals the
\* maximum stored score of the record.
C4_FirstStoredMaxWins ==
    \A k \in 1..Len(output_data) :
        c_locals[k].best_url # NoUrl =>
            LET rec == output_data[k]
                top == MaxOf({StoredScore(rec, i) : i \in StoredSlots(rec)})
            IN  c_locals[k].best_url =
                    rec.url[FirstOf({i \in StoredSlots(rec) : StoredScore(rec, i) = top})]

\* C4 as amended: when the maximum similarity of a record, not rounded, is
\* greater than 0, the winning slot is the lowest-indexed slot among those
\* whose similarity, not rounded, equals that maximum; when it is 0, or no
\* slot is scored, no slot wins and best_url stays None.
C4_FirstRawMaxWins ==
    \A k \in 1..Len(output_data) :
        /\ c_locals[k].best_similarity = MaxScore(data[k])
        /\ IF MaxScore(data[k]) > 0
           THEN c_locals[k].best_url = data[k].url[FirstMaxSlot(data[k])]
           ELSE c_locals[k].best_url = NoUrl

\* A record in which two slots tie on the maximum similarity, not rounded,
\* and the earlier of them won; another slot before them scored less.
C4_Witness ==
    /\ Len(output_data) >= 1
    /\ \E a, b \in ScoredSlots(data[1]) :
           /\ 1 < a /\ a < b
           /\ SlotScore(data[1], a) = MaxScore(data[1])
           /\ SlotScore(data[1], b) = MaxScore(data[1])
           /\ SlotScore(data[1], 1) < MaxScore(data[1])
           /\ FirstMaxSlot(data[1]) = a
           /\ c_locals[1].best_url = data[1].url[a]

\* C5: when the best similarity of a record is >= 0.6, matched_url is the
\* URL of the winning slot, the first slot that reached the maximum;
\* otherwise the status is "Not Available" and matched_url is "Not available
\* everywhere", as for a record none of whose titles shares a term with the
\* input title. The JSON record and the database row agree.
C5_MatchedUrlOrSentinel ==
    \A k \in 1..Len(output_data) :
        /\ IF MaxScore(data[k]) >= ThresholdMicro
           THEN /\ output_data[k].status = "Available"
                /\ output_data[k].matched_url = data[k].url[FirstMaxSlot(data[k])]
           ELSE /\ output_data[k].status = "Not Available"
                /\ output_data[k].matched_url = "Not available everywhere"
        /\ (\A i \in ScoredSlots(data[k]) : SlotScore(data[k], i) = 0) =>
               /\ output_data[k].status = "Not Available"
               /\ output_data[k].matched_url = "Not available everywhere"
        /\ k <= Len(db_pending \o db_rows) =>
               /\ (db_pending \o db_rows)[k].status = output_data[k].status
               /\ (db_pending \o db_rows)[k].matched_url = output_data[k].matched_url

\* A written record whose best slot, the third, scored at least 0.6: its
\* matched_url is the URL of that slot.
C5_Witness ==
    /\ output_json.written
    /\ MaxScore(data[1]) >= ThresholdMicro
    /\ FirstMaxSlot(data[1]) = 3
    /\ output_json.content[1].matched_url = data[1].url[3]
    /\ output_json.content[1].status = "Available"

\* Whether scoring the slots of a record ends in an exception.
RecordFails(record) == ScoreSlots(record, 1, InitialLocals).raised

\* C14: in main(), a failure on one record affects only that record: when
\* the batch has ended, every record whose own scoring does not fail has its
\* record in the written OUTPUT_JSON and its row committed to the database.
C14_FailureAffectsOneRecord ==
    c_pc \in {"done", "error"} =>
        \A k \in 1..Len(data) :
            ~RecordFails(data[k]) =>
                /\ output_json.written
                /\ \E j \in 1..Len(output_data) : output_data[j].id = data[k].id
                /\ \E j \in 1..Len(db_rows) : db_rows[j].id = data[k].id

\* C18: a slot whose title is the scraper's placeholder gets no
\* url_i_similarity entry and is never the selected slot.
C18_PlaceholderNeverScored ==
    \A k \in 1..Len(output_data) :
        \A i \in 1..NumSlots :
            output_data[k].url_title[i] = TitlePlaceholder =>
                /\ ~\E pair \in output_data[k].similarities : pair[1] = i
                /\ output_data[k].matched_url # output_data[k].url[i]

\* C19: for the input "Pepsi 330ML Can" with "Pepsi Cola 330 ml Can" in
\* slot 3 and titles sharing no term with the input in the other slots, the
\* resolver selects slot 3: matched_url is url_3, status is Available and
\* best_similarity is at least 0.6.
C19_PepsiSlotThreeMatched ==
    (c_pc = "done" /\ data \in PepsiBatches) =>
        /\ output_data[1].matched_url = UrlOf(3)
        /\ output_data[1].status = "Available"
        /\ output_data[1].best_similarity >= 600

\* Whether main() scores slot i of a record: the slot has a title.
SlotHasTitle(record, i) == record.url_title[i] # <<>>

\* C23: main() emits one output record per input record, in input order;
\* each keeps the input values of id, serial_number, input_title and the
\* five url and url_title fields, and has a url_i_similarity entry exactly
\* for the slots that were scored.
C23_OneOutputRecordPerInput ==
    c_pc \in {"done", "error"} =>
        /\ output_json.written
        /\ Len(output_json.content) = Len(data)
        /\ \A k \in 1..Len(data) :
               /\ output_json.content[k].id = data[k].id
               /\ output_json.content[k].serial_number = data[k].serial_number
               /\ output_json.content[k].input_title = data[k].input_title
               /\ output_json.content[k].url = data[k].url
               /\ output_json.content[k].url_title = data[k].url_title
               /\ \A i \in 1..NumSlots :
                      SlotHasTitle(data[k], i) <=>
                          \E pair \in output_json.content[k].similarities : pair[1] = i

(***************************************************************************)
(* Properties of the packaging type (SpecPackaging)                        *)
(***************************************************************************)
\* Whether the text holds the keyword in some letter case.
ContainsAnyCase(text, keyword) ==
    \E i \in 1..(Len(text) - Len(keyword) + 1) :
        Upper(SubSeq(text, i, i + Len(keyword) - 1)) = keyword

\* The rows of every frame of all_data and of the catalog.
NormalizedRecords ==
    UNION {{all_data[i][j] : j \in 1..Len(all_data[i])} : i \in 1..Len(all_data)}
    \cup {final_df[i] : i \in 1..Len(final_df)}

\* C12: detect_packaging_type returns CTN or NON-CTN for every name: NON-CTN
\* for NaN and for the empty string, CTN for a name that holds CTN, CARTON or
\* CARTONS in any letter case, NON-CTN for any other; and every normalized
\* record, also of the Unit-column path, has one of the two values.
C12_PackagingTypeTotal ==
    /\ p_pc = "done" =>
           /\ p_ret \in {"CTN", "NON-CTN"}
           /\ (IsNa(p_name) \/ p_name = <<>>) => p_ret = "NON-CTN"
           /\ ~IsNa(p_name) =>
                  (p_ret = "CTN" <=>
                     \E k \in {<<"C", "T", "N">>, <<"C", "A", "R", "T", "O", "N">>,
                               <<"C", "A", "R", "T", "O", "N", "S">>} :
                         ContainsAnyCase(p_name, k))
    /\ \A r \in NormalizedRecords : r.Packaging_Type \in {"CTN", "NON-CTN"}

\* A catalog with a record of a NaN name, classified NON-CTN, and a record
\* that the Unit column of "Amal Trading" classified CTN.
C12_Witness ==
    /\ m_pc = "done"
    /\ \E r \in NormalizedRecords : IsNa(r.Product_Name) /\ r.Packaging_Type = "NON-CTN"
    /\ \E r \in NormalizedRecords :
           /\ r.Supplier = "Amal Trading" /\ r.Packaging_Type = "CTN"
           /\ detect_packaging_type(r.Product_Name) = "NON-CTN"

\* detect_packaging_type was called on a name that holds "ctn" in lower case
\* and returned CTN.
C12_WitnessCall ==
    /\ p_pc = "done" /\ p_name = <<"5", " ", "c", "t", "n">> /\ p_ret = "CTN"

\* The cell of row k of source i under the column named col.
SourceCell(i, k, col) ==
    files[i].rows[k][CHOOSE c \in 1..Len(files[i].columns) : files[i].columns[c] = col]

\* Whether a name holds one of the carton keywords in some letter case.
NameSaysCarton(name) ==
    /\ ~IsNa(name)
    /\ \E k \in {<<"C", "T", "N">>, <<"C", "A", "R", "T", "O", "N">>} :
           ContainsAnyCase(name, k)

\* Whether a cell of the Unit column, trimmed and upper-cased, is "CTN".
UnitSaysCtn(cell) == ~IsNa(cell) /\ Upper(Strip(cell)) = <<"C", "T", "N">>

\* C21: a row of "Amal Trading" read from a file with a Unit column is CTN
\* exactly when its Unit cell, trimmed and upper-cased, is "CTN", whatever
\* its name holds; a row of any other source, or of a file without a Unit
\* column, is CTN exactly when its name holds a carton keyword.
C21_UnitDecidesOverrideSource ==
    \A f \in 1..Len(all_data) : \A k \in 1..Len(all_data[f]) :
        \A i \in 1..Len(input_files) :
            input_files[i] = all_data[f][k].Supplier =>
                IF i = 1 /\ \E c \in 1..Len(files[i].columns) : files[i].columns[c] = "Unit"
                THEN all_data[f][k].Packaging_Type =
                         (IF UnitSaysCtn(SourceCell(i, k, "Unit")) THEN "CTN" ELSE "NON-CTN")
                ELSE all_data[f][k].Packaging_Type =
                         (IF NameSaysCarton(all_data[f][k].Product_Name)
                          THEN "CTN" ELSE "NON-CTN")

\* Both sources hold a row named "5KG CTN" with the Unit cell CARTON: the
\* row of "Amal Trading" is NON-CTN, the row of "Future" is CTN.
C21_Witness ==
    /\ Len(all_data) = 2
    /\ \A i \in 1..2 : /\ SourceCell(i, 1, "Unit") = CellCarton
                        /\ SourceCell(i, 1, "Item Name") = MergeNameA
    /\ all_data[1][1].Packaging_Type = "NON-CTN"
    /\ all_data[2][1].Packaging_Type = "CTN"

(***************************************************************************)
(* Properties of compute_similarity (SpecSim)                              *)
(***************************************************************************)
\* C13: compute_similarity returns 0.0 and does not raise when at least one
\* of its two texts has no term, also when neither has one.
C13_ZeroTermsScoreZero ==
    (s_pc = "done" /\ (Tokenize(s_text1) = <<>> \/ Tokenize(s_text2) = <<>>)) =>
        (~s_ret.raised /\ s_ret.micro = 0)

\* C20: compute_similarity(s, s) is 1.0, within a millionth, for every
\* non-empty text s, and the score of any two texts lies in [0, 1].
C20_SelfSimilarityOne ==
    s_pc = "done" =>
        /\ ~s_ret.raised
        /\ 0 <= s_ret.micro /\ s_ret.micro <= 1000000
        /\ (s_text1 = s_text2 /\ s_text1 # <<>>) => s_ret.micro >= 999999


(***************************************************************************)
(* Properties of the scraper of Amazon_url_scraping.py (SpecUrl)           *)
(***************************************************************************)
\* The state part of C24: the failed attempts of a product are logged as
\* the first, second and third line after its "searching" line and there
\* is no fourth; the third is followed by the error line of the product;
\* right after an error line the JSON file holds the minimal record of the
\* product and the loop has moved to the next row; and the parsing of a page
\* follows at most two failed attempts.
AtMostThreeAttempts ==
    /\ \A p \in 1..Len(log_file) :
           log_file[p].event = "attempt failed" =>
               /\ log_file[p].attempt \in 1..3
               /\ p > log_file[p].attempt
               /\ log_file[p - log_file[p].attempt] =
                      LogLine("searching", log_file[p].serial, 0)
               /\ log_file[p].attempt = 3 =>
                      /\ p < Len(log_file)
                      /\ log_file[p + 1] = LogLine("error", log_file[p].serial, 0)
    /\ (log_file # <<>> /\ log_file[Len(log_file)].event = "error") =>
           /\ a_pc \in {"loop", "idle"} /\ a_row > 1
           /\ csv_file[a_row - 1].sl_no = log_file[Len(log_file)].serial
           /\ json_file.written
           /\ log_file[Len(log_file)].serial \in DOMAIN json_file.content
           /\ DOMAIN json_file.content[log_file[Len(log_file)].serial] =
                  {"Serial_Number", "input_title"}
    /\ a_pc = "parse" =>
           /\ attempt \in 0..2
           /\ log_file[Len(log_file)].event \in {"searching", "attempt failed"}
           /\ log_file[Len(log_file)].attempt = attempt

\* C24: the search of a product is attempted at most three times, a
\* successful attempt ends the attempts, a third failed attempt records the
\* product as failed and the loop goes on; and every run that has started
\* comes to the end of the product list.
C24_ThreeAttemptsThenNext ==
    /\ []AtMostThreeAttempts
    /\ (a_pc \in {"loop", "search", "parse"}) ~> (a_pc = "idle")

\* A run that ended after the first product failed three times and the
\* second was scraped on its second attempt.
C24_Witness ==
    /\ a_pc = "idle" /\ a_run = 1
    /\ \E p \in 1..Len(log_file) :
           /\ log_file[p] = LogLine("attempt failed", "1", 3)
           /\ p + 4 = Len(log_file)
           /\ log_file[p + 3] = LogLine("attempt failed", "2", 1)
           /\ log_file[p + 4] = LogLine("scraped", "2", 0)

\* C25: a row whose serial number is in the JSON file when the row is
\* processed is skipped: while a row is searched or parsed its serial
\* number is not in the file; so no serial number is scraped twice.
C25_SerialInJsonIsSkipped ==
    /\ a_pc \in {"search", "parse"} =>
           csv_file[a_row].sl_no \notin DOMAIN load_json(json_file)
    /\ \A p, q \in 1..Len(top_product_urls) :
           p # q => top_product_urls[p].Serial_Number # top_product_urls[q].Serial_Number

\* C26: every record of the JSON file and every row of top_product_urls
\* has five url slots and five title slots.
C26_FiveSlotsAlways ==
    /\ \A sn \in DOMAIN load_json(json_file) :
           /\ {"url", "url_title"} \subseteq DOMAIN load_json(json_file)[sn]
           /\ Len(load_json(json_file)[sn].url) = 5
           /\ Len(load_json(json_file)[sn].url_title) = 5
    /\ \A p \in 1..Len(top_product_urls) :
           Len(top_product_urls[p].url) = 5 /\ Len(top_product_urls[p].url_title) = 5

\* The number of the run that wrote line p of the log.
RunOfLine(p) == Cardinality({q \in 1..p : log_file[q].event = "started"})

\* C29: a product whose scrape failed in a run is not searched in a later
\* run: no "searching" line of a serial number follows, in a later run, an
\* error line of that serial number; and the serial number of an error line
\* stays in the JSON file.
C29_FailedNeverSearchedAgain ==
    \A p \in 1..Len(log_file) :
        log_file[p].event = "error" =>
            /\ log_file[p].serial \in DOMAIN load_json(json_file)
            /\ \A q \in (p + 1)..Len(log_file) :
                   (log_file[q].event = "searching" /\ RunOfLine(q) > RunOfLine(p)) =>
                       log_file[q].serial # log_file[p].serial

\* The second run skipped a product that failed in the first, after the
\* first had gone on to scrape another product.
C29_Witness ==
    /\ a_run = 2
    /\ \E p, q, r \in 1..Len(log_file) :
           /\ p < q /\ q < r
           /\ log_file[p] = LogLine("error", "1", 0)
           /\ log_file[q] = LogLine("scraped", "2", 0)
           /\ log_file[r] = LogLine("skipping", "1", 0)
           /\ RunOfLine(p) = 1 /\ RunOfLine(r) = 2


(***************************************************************************)
(* Properties of main() of AMAZON_DATA_SCRAPER_CURL.py (SpecData)          *)
(***************************************************************************)
\* C30: across the runs, interrupted ones included, a source row has at
\* most one output row in the CSV file and at most one in scraped_products,
\* and a row marked scraped = 1 is not among the rows a run processes.
C30_AtMostOneOutputRow ==
    /\ \A p, q \in 1..Len(scraped_csv) :
           p # q => scraped_csv[p].Scrape_ID # scraped_csv[q].Scrape_ID
    /\ \A p, q \in 1..Len(scraped_products) :
           p # q => scraped_products[p].Scrape_ID # scraped_products[q].Scrape_ID
    /\ (d_pc = "loop" /\ d_idx <= Len(d_rows)) =>
           \A k \in 1..Len(url_similarity) :
               url_similarity[k].id = d_rows[d_idx].id => url_similarity[k].scraped = 0

=============================================================================
